---- MODULE Spec2Model ----
(***************************************************************************)
(* Verification model of the Proof-of-Inference program (programs/poi):    *)
(*   lib.rs     the ledger instructions initialize, submit_solution,       *)
(*              claim, advance_epoch, close_expired and the helpers        *)
(*              check_difficulty, calculate_reward, log2_ceil;             *)
(*   verify.rs  verify_text, the single-pass text constraint verifier;     *)
(*   words.rs   WORDLIST and derive_words.                                 *)
(*                                                                         *)
(* Bytes are the integers 0..255, byte strings are sequences of bytes      *)
(* (1-based here, 0-based in the source: text[i] of the source is          *)
(* text[i + 1] of the model).  A u64 that the program multiplies with      *)
(* wrap-around is a sequence of 8 byte limbs, least significant first,     *)
(* because the model checker's integers are 32 bits wide.                  *)
(***************************************************************************)
EXTENDS Integers, Sequences, FiniteSets, TLC

Min(a, b) == IF a <= b THEN a ELSE b
Max(a, b) == IF a >= b THEN a ELSE b

\* u64::saturating_sub
SatSub(a, b) == IF a >= b THEN a - b ELSE 0

(***************************************************************************)
(* verify.rs: character classes                                            *)
(***************************************************************************)

is_alpha(b) == (b >= 65 /\ b <= 90) \/ (b >= 97 /\ b <= 122)

to_lower(b) == IF b >= 65 /\ b <= 90 THEN b + 32 ELSE b

is_vowel_lower(b) == b \in {97, 101, 105, 111, 117}

is_whitespace(b) == b = 32 \/ b = 10 \/ b = 9 \/ b = 13

is_sentence_end(b) == b \in {46, 33, 63}

(***************************************************************************)
(* verify.rs: simple_hash.  64-bit arithmetic on 8 byte limbs.             *)
(***************************************************************************)

RECURSIVE BitXor(_, _, _)
\* a ^ b on n-bit operands
BitXor(a, b, n) ==
  IF n = 0 THEN 0
  ELSE (((a % 2) + (b % 2)) % 2) + 2 * BitXor(a \div 2, b \div 2, n - 1)

RECURSIVE BitAnd(_, _, _)
\* a & b on n-bit operands
BitAnd(a, b, n) ==
  IF n = 0 THEN 0
  ELSE ((a % 2) * (b % 2)) + 2 * BitAnd(a \div 2, b \div 2, n - 1)

\* h ^= b for a u64 h and a byte b widened to u64: only the low limb changes
XorByte(h, b) == [h EXCEPT ![1] = BitXor(h[1], b, 8)]

\* u64::wrapping_mul: the product modulo 2^64, by columns of limb products
\* with the carry c \div 256 passed to the next column
WrappingMul(a, b) ==
  LET c1 == a[1] * b[1]
      c2 == a[1] * b[2] + a[2] * b[1] + (c1 \div 256)
      c3 == a[1] * b[3] + a[2] * b[2] + a[3] * b[1] + (c2 \div 256)
      c4 == a[1] * b[4] + a[2] * b[3] + a[3] * b[2] + a[4] * b[1] + (c3 \div 256)
      c5 == a[1] * b[5] + a[2] * b[4] + a[3] * b[3] + a[4] * b[2] + a[5] * b[1] + (c4 \div 256)
      c6 == a[1] * b[6] + a[2] * b[5] + a[3] * b[4] + a[4] * b[3] + a[5] * b[2] + a[6] * b[1] + (c5 \div 256)
      c7 == a[1] * b[7] + a[2] * b[6] + a[3] * b[5] + a[4] * b[4] + a[5] * b[3] + a[6] * b[2] + a[7] * b[1] + (c6 \div 256)
      c8 == a[1] * b[8] + a[2] * b[7] + a[3] * b[6] + a[4] * b[5] + a[5] * b[4] + a[6] * b[3] + a[7] * b[2] + a[8] * b[1] + (c7 \div 256)
  IN  <<c1 % 256, c2 % 256, c3 % 256, c4 % 256, c5 % 256, c6 % 256, c7 % 256, c8 % 256>>

\* 0xcbf29ce484222325
FNV_SEED_1 == <<37, 35, 34, 132, 228, 156, 242, 203>>
\* 0x6c62272e07bb0142
FNV_SEED_2 == <<66, 1, 187, 7, 46, 39, 98, 108>>
\* 0x100000001b3, the multiplier of h1
FNV_MUL_1 == <<179, 1, 0, 0, 0, 1, 0, 0>>
\* 0x100000001b3, the multiplier of h2 (the same constant in the source)
FNV_MUL_2 == <<179, 1, 0, 0, 0, 1, 0, 0>>

\* a variant of HashByte that multiplies before it mixes the byte in (FNV-1
\* instead of FNV-1a); FingerprintTwoSeeds does not hold of it
HashByteFnv1(h, b) ==
  <<XorByte(WrappingMul(h[1], FNV_MUL_1), b),
    XorByte(WrappingMul(h[2], FNV_MUL_2), b)>>

\* one iteration of simple_hash's loop on the pair (h1, h2)
HashByte(h, b) ==
  <<WrappingMul(XorByte(h[1], b), FNV_MUL_1),
    WrappingMul(XorByte(h[2], b), FNV_MUL_2)>>

RECURSIVE HashRange(_, _, _, _)
\* simple_hash's loop over text[lo..hi] (model indices, inclusive), the
\* bytes taken left to right; the range is halved to keep the evaluation
\* shallow, which leaves the order of the bytes unchanged (the test on h
\* only makes the evaluation strict in h: a hash pair always has 2 parts)
HashRange(h, text, lo, hi) ==
  IF lo > hi \/ Len(h) # 2 THEN h
  ELSE IF lo = hi THEN HashByte(h, text[lo])
  ELSE LET mid == (lo + hi) \div 2
       IN  HashRange(HashRange(h, text, lo, mid), text, mid + 1, hi)

\* simple_hash(&text[lo..=hi]) with lo, hi the model's 1-based indices
simple_hash(text, lo, hi) == HashRange(<<FNV_SEED_1, FNV_SEED_2>>, text, lo, hi)

(***************************************************************************)
(* verify.rs: verify_text.  The thresholds are literals in the source.     *)
(***************************************************************************)

MIN_TEXT_LEN == 256
MAX_TEXT_LEN == 800
MIN_WORD_GAP == 40
MIN_SENT_WORDS == 5
MAX_SENT_WORDS == 35
SHORT_SENT_WORDS == 10
LONG_SENT_WORDS == 20
SENT_HASH_CAP == 50
MIN_SENT_COUNT == 2
MIN_VOWEL_PCT == 30
MAX_VOWEL_PCT == 48
MIN_SPACE_PCT == 12
MAX_SPACE_PCT == 22
MAX_CONS_RUN == 5
MIN_BIGRAM == 2
MIN_UNIQUE_BYTES == 28

\* The locals of verify_text before the main loop.  pc is "loop" while the
\* function runs, "done" once it has returned `result`, "fault" when it has
\* panicked on an out-of-range index.  sent_hashes holds the hash_count
\* entries written so far.
VtInit ==
  [pc |-> "loop", result |-> FALSE, i |-> 0,
   letter_count |-> 0, vowel_count |-> 0, space_count |-> 0,
   bmap |-> <<{}, {}, {}, {}>>,
   prev_lower |-> 0,
   bg_th |-> 0, bg_he |-> 0, bg_in |-> 0, bg_er |-> 0, bg_an |-> 0,
   cons_run |-> 0, cons_max |-> 0, cons_total |-> 0, cons_count |-> 0,
   words_in_sent |-> 0, in_word |-> FALSE, sent_count |-> 0,
   has_question |-> FALSE, has_short |-> FALSE, has_long |-> FALSE,
   sent_start |-> 0, sent_started |-> FALSE,
   sent_hashes |-> <<>>, hash_count |-> 0,
   rw_idx |-> 0, rw_match |-> 0, rw_match_start |-> 0,
   last_rw_end |-> 0, has_rw_match |-> FALSE]

\* `return false`
VtReject(st) == [st EXCEPT !.pc = "done", !.result = FALSE]

\* byte diversity, letter/vowel/space counts and consonant clusters
VtCounts(st, b) ==
  LET alpha == is_alpha(b)
      vowel == alpha /\ is_vowel_lower(to_lower(b))
      flush == ~(alpha /\ ~vowel) /\ st.cons_run > 0
  IN  [st EXCEPT
         !.bmap[(b \div 64) + 1] = @ \cup {b % 64},
         !.letter_count = IF alpha THEN @ + 1 ELSE @,
         !.vowel_count = IF vowel THEN @ + 1 ELSE @,
         !.space_count = IF b = 32 THEN @ + 1 ELSE @,
         !.cons_run = IF alpha /\ ~vowel THEN @ + 1 ELSE 0,
         !.cons_max = IF flush /\ st.cons_run > @ THEN st.cons_run ELSE @,
         !.cons_total = IF flush THEN @ + st.cons_run ELSE @,
         !.cons_count = IF flush THEN @ + 1 ELSE @]

\* bigram detection, word tracking within the sentence, sentence start
VtWords(st, b) ==
  LET lower == to_lower(b)
      pair == <<st.prev_lower, lower>>
      brk == is_whitespace(b) \/ is_sentence_end(b)
  IN  [st EXCEPT
         !.bg_th = IF st.i > 0 /\ pair = <<116, 104>> THEN @ + 1 ELSE @,
         !.bg_he = IF st.i > 0 /\ pair = <<104, 101>> THEN @ + 1 ELSE @,
         !.bg_in = IF st.i > 0 /\ pair = <<105, 110>> THEN @ + 1 ELSE @,
         !.bg_er = IF st.i > 0 /\ pair = <<101, 114>> THEN @ + 1 ELSE @,
         !.bg_an = IF st.i > 0 /\ pair = <<97, 110>> THEN @ + 1 ELSE @,
         !.prev_lower = lower,
         !.in_word = ~brk,
         !.words_in_sent = IF ~brk /\ ~st.in_word THEN @ + 1 ELSE @,
         !.sent_start = IF ~st.sent_started /\ ~brk THEN st.i ELSE @,
         !.sent_started = @ \/ ~brk]

\* a variant of BoundaryOk that takes no match at the start of the text;
\* MatcherComplete does not hold of it
BoundaryOkInner(text, start, i) ==
  /\ start > 0 /\ ~is_alpha(text[start])
  /\ i + 1 >= Len(text) \/ ~is_alpha(text[i + 2])

\* the boundary test of a full match that started at 0-based offset `start`
\* and ends at the current byte i
BoundaryOk(text, start, i) ==
  /\ start = 0 \/ ~is_alpha(text[start])
  /\ i + 1 >= Len(text) \/ ~is_alpha(text[i + 2])

\* a variant of GapOk that asks for no gap; MatchesInOrder does not hold
\* of it
GapOkAlways(st, start) == TRUE

\* the gap test of a full match that started at `start`
GapOk(st, start) == ~(st.has_rw_match /\ start < st.last_rw_end + MIN_WORD_GAP)

\* whether the current byte re-seeds a match of word w
Reseeds(w, lower) == Len(w) > 0 /\ lower = to_lower(w[1])

\* required word matching at the current byte
VtMatch(st, text, words) ==
  IF st.rw_idx >= Len(words) THEN st
  ELSE
    LET i == st.i
        lower == to_lower(text[i + 1])
        rw == words[st.rw_idx + 1]
    IN  IF Len(rw) > 0 /\ st.rw_match >= Len(rw)
        THEN \* rw[rw_match] indexes past the word: the program panics
             [st EXCEPT !.pc = "fault"]
        ELSE IF Len(rw) > 0 /\ lower = to_lower(rw[st.rw_match + 1])
        THEN LET start == IF st.rw_match = 0 THEN i ELSE st.rw_match_start
                 m == st.rw_match + 1
             IN  IF m = Len(rw)
                 THEN LET taken == BoundaryOk(text, start, i) /\ GapOk(st, start)
                          idx == IF taken THEN st.rw_idx + 1 ELSE st.rw_idx
                          again == idx < Len(words) /\ Reseeds(words[idx + 1], lower)
                      IN  [st EXCEPT
                             !.rw_idx = idx,
                             !.last_rw_end = IF taken THEN i + 1 ELSE @,
                             !.has_rw_match = @ \/ taken,
                             !.rw_match = IF again THEN 1 ELSE 0,
                             !.rw_match_start = IF again THEN i ELSE start]
                 ELSE [st EXCEPT !.rw_match = m, !.rw_match_start = start]
        ELSE IF st.rw_match > 0
        THEN LET again == Reseeds(rw, lower)
             IN  [st EXCEPT
                    !.rw_match = IF again THEN 1 ELSE 0,
                    !.rw_match_start = IF again THEN i ELSE @]
        ELSE st

\* a variant of HashTableOpen that never closes the table;
\* DedupCapped does not hold of it
HashTableOpenAlways(hash_count) == TRUE

\* the table of sentence fingerprints still takes an entry
HashTableOpen(hash_count) == hash_count < SENT_HASH_CAP

\* a variant of SeenHash that finds no fingerprint in the table;
\* DuplicateRejected does not hold of it
SeenHashNever(st, h) == FALSE

\* whether the sentence's fingerprint h is already in the table
SeenHash(st, h) == \E j \in 1..st.hash_count : st.sent_hashes[j] = h

\* a variant of SentWordsBad without the lower bound;
\* SentenceLengthEnforced does not hold of it
SentWordsBadUpper(words_in_sent) == words_in_sent > MAX_SENT_WORDS

\* the word count bounds of a completed sentence are violated
SentWordsBad(words_in_sent) ==
  words_in_sent < MIN_SENT_WORDS \/ words_in_sent > MAX_SENT_WORDS

\* the sentence-end block at the current byte
VtSentence(st, text) ==
  LET b == text[st.i + 1]
  IN  IF ~(is_sentence_end(b) /\ st.words_in_sent > 0 /\ st.sent_started)
      THEN st
      ELSE IF SentWordsBad(st.words_in_sent)
      THEN VtReject(st)
      ELSE
        LET s1 == [st EXCEPT
                     !.has_question = @ \/ b = 63,
                     !.has_short = @ \/ st.words_in_sent <= SHORT_SENT_WORDS,
                     !.has_long = @ \/ st.words_in_sent >= LONG_SENT_WORDS]
            h == simple_hash(text, st.sent_start + 1, st.i + 1)
            dup == HashTableOpen(st.hash_count) /\ SeenHash(st, h)
            s2 == IF HashTableOpen(st.hash_count)
                  THEN [s1 EXCEPT !.sent_hashes = Append(@, h),
                                  !.hash_count = @ + 1]
                  ELSE s1
        IN  IF dup THEN VtReject(s1)
            ELSE [s2 EXCEPT !.sent_count = @ + 1,
                            !.words_in_sent = 0,
                            !.in_word = FALSE,
                            !.sent_started = FALSE]

\* one iteration of the main loop, at byte st.i
VtBody(st, text, words) ==
  IF st.pc # "loop" THEN st
  ELSE
    LET b == text[st.i + 1]
    IN  IF b > 127 THEN VtReject(st)
        ELSE
          LET s1 == VtMatch(VtWords(VtCounts(st, b), b), text, words)
              s2 == IF s1.pc = "loop" THEN VtSentence(s1, text) ELSE s1
          IN  IF s2.pc = "loop" THEN [s2 EXCEPT !.i = @ + 1] ELSE s2

RECURSIVE VtLoop(_, _, _, _, _)
\* the iterations lo..hi of the main loop, in order; the range is halved to
\* keep the evaluation shallow
VtLoop(st, text, words, lo, hi) ==
  IF lo > hi \/ st.pc # "loop" THEN st
  ELSE IF lo = hi THEN VtBody(st, text, words)
  ELSE LET mid == (lo + hi) \div 2
       IN  VtLoop(VtLoop(st, text, words, lo, mid), text, words, mid + 1, hi)

\* a variant of VtFlush that drops the cluster in progress at the end of
\* the text; ConsonantRunsBounded does not hold of it
VtFlushNone(st) == st

\* the trailing consonant cluster is flushed after the loop
VtFlush(st) ==
  IF st.cons_run > 0
  THEN [st EXCEPT !.cons_max = IF st.cons_run > @ THEN st.cons_run ELSE @,
                  !.cons_total = @ + st.cons_run,
                  !.cons_count = @ + 1]
  ELSE st

\* bmap[0].count_ones() + ... + bmap[3].count_ones()
UniqueBytes(st) ==
  Cardinality(st.bmap[1]) + Cardinality(st.bmap[2])
    + Cardinality(st.bmap[3]) + Cardinality(st.bmap[4])

\* a variant of SentenceRulesOk without the test of a long sentence;
\* SentenceMixRequired does not hold of it
SentenceRulesNoLong(st) ==
  /\ ~(st.sent_count < MIN_SENT_COUNT)
  /\ st.has_question
  /\ st.has_short

\* the post-loop checks of the sentence structure
SentenceRulesOk(st) ==
  /\ ~(st.sent_count < MIN_SENT_COUNT)
  /\ st.has_question
  /\ st.has_short
  /\ st.has_long

\* the post-loop checks, on the locals after the flush
VtPostOk(st, text, words) ==
  /\ ~(st.rw_idx < Len(words))
  /\ SentenceRulesOk(st)
  /\ st.letter_count # 0
  /\ ~(st.vowel_count * 100 < MIN_VOWEL_PCT * st.letter_count)
  /\ ~(st.vowel_count * 100 > MAX_VOWEL_PCT * st.letter_count)
  /\ ~(st.space_count * 100 < MIN_SPACE_PCT * Len(text))
  /\ ~(st.space_count * 100 > MAX_SPACE_PCT * Len(text))
  /\ ~(st.cons_max > MAX_CONS_RUN)
  /\ ~(st.cons_count > 0 /\ st.cons_total * 10 >= 25 * st.cons_count)
  /\ ~(st.bg_th < MIN_BIGRAM \/ st.bg_he < MIN_BIGRAM \/ st.bg_in < MIN_BIGRAM
         \/ st.bg_er < MIN_BIGRAM \/ st.bg_an < MIN_BIGRAM)
  /\ ~(UniqueBytes(st) < MIN_UNIQUE_BYTES)

VtFinish(st, text, words) ==
  IF st.pc # "loop" THEN st
  ELSE LET s1 == VtFlush(st)
       IN  [s1 EXCEPT !.pc = "done", !.result = VtPostOk(s1, text, words)]

\* a variant of TextLenBad whose lower bound is one byte lower;
\* LengthEnforced does not hold of it
TextLenBadShort(len) == len < MIN_TEXT_LEN - 1 \/ len > MAX_TEXT_LEN

\* the length test at the head of verify_text
TextLenBad(len) == len < MIN_TEXT_LEN \/ len > MAX_TEXT_LEN

\* verify_text(text, required_words): the locals at the return (or at the
\* panic), with the verdict in `result`
verify_text(text, words) ==
  IF TextLenBad(Len(text))
  THEN VtReject(VtInit)
  ELSE VtFinish(VtLoop(VtInit, text, words, 0, Len(text) - 1), text, words)

\* verify_text returned true
Accepts(r) == r.pc = "done" /\ r.result

(***************************************************************************)
(* words.rs: the word list and derive_words                                *)
(***************************************************************************)

WORDLIST_SIZE == 200
MAX_REQUIRED == 8
MAX_WORD_LEN == 8

\* the 200 words of WORDLIST as byte strings, in the order of the source
WORDLIST ==
  <<
   \* 0: time life world place
   <<116,105,109,101>>, <<108,105,102,101>>, <<119,111,114,108,100>>, <<112,108,97,99,101>>,
   \* 4: water light house music
   <<119,97,116,101,114>>, <<108,105,103,104,116>>, <<104,111,117,115,101>>, <<109,117,115,105,99>>,
   \* 8: power dream heart earth
   <<112,111,119,101,114>>, <<100,114,101,97,109>>, <<104,101,97,114,116>>, <<101,97,114,116,104>>,
   \* 12: ocean river cloud stone
   <<111,99,101,97,110>>, <<114,105,118,101,114>>, <<99,108,111,117,100>>, <<115,116,111,110,101>>,
   \* 16: flame voice night field
   <<102,108,97,109,101>>, <<118,111,105,99,101>>, <<110,105,103,104,116>>, <<102,105,101,108,100>>,
   \* 20: space brain truth peace
   <<115,112,97,99,101>>, <<98,114,97,105,110>>, <<116,114,117,116,104>>, <<112,101,97,99,101>>,
   \* 24: storm tower plant metal
   <<115,116,111,114,109>>, <<116,111,119,101,114>>, <<112,108,97,110,116>>, <<109,101,116,97,108>>,
   \* 28: glass wheel bridge forest
   <<103,108,97,115,115>>, <<119,104,101,101,108>>, <<98,114,105,100,103,101>>, <<102,111,114,101,115,116>>,
   \* 32: garden market island desert
   <<103,97,114,100,101,110>>, <<109,97,114,107,101,116>>, <<105,115,108,97,110,100>>, <<100,101,115,101,114,116>>,
   \* 36: silver shadow spirit nature
   <<115,105,108,118,101,114>>, <<115,104,97,100,111,119>>, <<115,112,105,114,105,116>>, <<110,97,116,117,114,101>>,
   \* 40: energy future memory moment
   <<101,110,101,114,103,121>>, <<102,117,116,117,114,101>>, <<109,101,109,111,114,121>>, <<109,111,109,101,110,116>>,
   \* 44: season winter summer signal
   <<115,101,97,115,111,110>>, <<119,105,110,116,101,114>>, <<115,117,109,109,101,114>>, <<115,105,103,110,97,108>>,
   \* 48: system design method reason
   <<115,121,115,116,101,109>>, <<100,101,115,105,103,110>>, <<109,101,116,104,111,100>>, <<114,101,97,115,111,110>>,
   \* 52: answer letter person animal
   <<97,110,115,119,101,114>>, <<108,101,116,116,101,114>>, <<112,101,114,115,111,110>>, <<97,110,105,109,97,108>>,
   \* 56: flower morning evening journey
   <<102,108,111,119,101,114>>, <<109,111,114,110,105,110,103>>, <<101,118,101,110,105,110,103>>, <<106,111,117,114,110,101,121>>,
   \* 60: history culture balance freedom
   <<104,105,115,116,111,114,121>>, <<99,117,108,116,117,114,101>>, <<98,97,108,97,110,99,101>>, <<102,114,101,101,100,111,109>>,
   \* 64: pattern shelter surface chapter
   <<112,97,116,116,101,114,110>>, <<115,104,101,108,116,101,114>>, <<115,117,114,102,97,99,101>>, <<99,104,97,112,116,101,114>>,
   \* 68: element silence think learn
   <<101,108,101,109,101,110,116>>, <<115,105,108,101,110,99,101>>, <<116,104,105,110,107>>, <<108,101,97,114,110>>,
   \* 72: build write speak dance
   <<98,117,105,108,100>>, <<119,114,105,116,101>>, <<115,112,101,97,107>>, <<100,97,110,99,101>>,
   \* 76: climb watch shine carry
   <<99,108,105,109,98>>, <<119,97,116,99,104>>, <<115,104,105,110,101>>, <<99,97,114,114,121>>,
   \* 80: drive paint teach reach
   <<100,114,105,118,101>>, <<112,97,105,110,116>>, <<116,101,97,99,104>>, <<114,101,97,99,104>>,
   \* 84: solve share trust guide
   <<115,111,108,118,101>>, <<115,104,97,114,101>>, <<116,114,117,115,116>>, <<103,117,105,100,101>>,
   \* 88: shape craft chase drift
   <<115,104,97,112,101>>, <<99,114,97,102,116>>, <<99,104,97,115,101>>, <<100,114,105,102,116>>,
   \* 92: weave bloom grasp shift
   <<119,101,97,118,101>>, <<98,108,111,111,109>>, <<103,114,97,115,112>>, <<115,104,105,102,116>>,
   \* 96: sweep trace wander gather
   <<115,119,101,101,112>>, <<116,114,97,99,101>>, <<119,97,110,100,101,114>>, <<103,97,116,104,101,114>>,
   \* 100: create follow listen notice
   <<99,114,101,97,116,101>>, <<102,111,108,108,111,119>>, <<108,105,115,116,101,110>>, <<110,111,116,105,99,101>>,
   \* 104: wonder happen become remain
   <<119,111,110,100,101,114>>, <<104,97,112,112,101,110>>, <<98,101,99,111,109,101>>, <<114,101,109,97,105,110>>,
   \* 108: travel return search reveal
   <<116,114,97,118,101,108>>, <<114,101,116,117,114,110>>, <<115,101,97,114,99,104>>, <<114,101,118,101,97,108>>,
   \* 112: explore imagine connect protect
   <<101,120,112,108,111,114,101>>, <<105,109,97,103,105,110,101>>, <<99,111,110,110,101,99,116>>, <<112,114,111,116,101,99,116>>,
   \* 116: reflect develop consider discover
   <<114,101,102,108,101,99,116>>, <<100,101,118,101,108,111,112>>, <<99,111,110,115,105,100,101,114>>, <<100,105,115,99,111,118,101,114>>,
   \* 120: bright quiet gentle strong
   <<98,114,105,103,104,116>>, <<113,117,105,101,116>>, <<103,101,110,116,108,101>>, <<115,116,114,111,110,103>>,
   \* 124: simple hidden golden silent
   <<115,105,109,112,108,101>>, <<104,105,100,100,101,110>>, <<103,111,108,100,101,110>>, <<115,105,108,101,110,116>>,
   \* 128: frozen bitter tender vivid
   <<102,114,111,122,101,110>>, <<98,105,116,116,101,114>>, <<116,101,110,100,101,114>>, <<118,105,118,105,100>>,
   \* 132: subtle fierce humble steady
   <<115,117,98,116,108,101>>, <<102,105,101,114,99,101>>, <<104,117,109,98,108,101>>, <<115,116,101,97,100,121>>,
   \* 136: clever honest broken sacred
   <<99,108,101,118,101,114>>, <<104,111,110,101,115,116>>, <<98,114,111,107,101,110>>, <<115,97,99,114,101,100>>,
   \* 140: unique global active native
   <<117,110,105,113,117,101>>, <<103,108,111,98,97,108>>, <<97,99,116,105,118,101>>, <<110,97,116,105,118,101>>,
   \* 144: smooth narrow liquid mental
   <<115,109,111,111,116,104>>, <<110,97,114,114,111,119>>, <<108,105,113,117,105,100>>, <<109,101,110,116,97,108>>,
   \* 148: social visual formal casual
   <<115,111,99,105,97,108>>, <<118,105,115,117,97,108>>, <<102,111,114,109,97,108>>, <<99,97,115,117,97,108>>,
   \* 152: proper remote secure stable
   <<112,114,111,112,101,114>>, <<114,101,109,111,116,101>>, <<115,101,99,117,114,101>>, <<115,116,97,98,108,101>>,
   \* 156: cosmic ancient modern natural
   <<99,111,115,109,105,99>>, <<97,110,99,105,101,110,116>>, <<109,111,100,101,114,110>>, <<110,97,116,117,114,97,108>>,
   \* 160: digital central special private
   <<100,105,103,105,116,97,108>>, <<99,101,110,116,114,97,108>>, <<115,112,101,99,105,97,108>>, <<112,114,105,118,97,116,101>>,
   \* 164: perfect strange careful curious
   <<112,101,114,102,101,99,116>>, <<115,116,114,97,110,103,101>>, <<99,97,114,101,102,117,108>>, <<99,117,114,105,111,117,115>>,
   \* 168: distant endless often never
   <<100,105,115,116,97,110,116>>, <<101,110,100,108,101,115,115>>, <<111,102,116,101,110>>, <<110,101,118,101,114>>,
   \* 172: always slowly deeply gently
   <<97,108,119,97,121,115>>, <<115,108,111,119,108,121>>, <<100,101,101,112,108,121>>, <<103,101,110,116,108,121>>,
   \* 176: simply nearly barely mostly
   <<115,105,109,112,108,121>>, <<110,101,97,114,108,121>>, <<98,97,114,101,108,121>>, <<109,111,115,116,108,121>>,
   \* 180: partly surely truly fully
   <<112,97,114,116,108,121>>, <<115,117,114,101,108,121>>, <<116,114,117,108,121>>, <<102,117,108,108,121>>,
   \* 184: quite still maybe hence
   <<113,117,105,116,101>>, <<115,116,105,108,108>>, <<109,97,121,98,101>>, <<104,101,110,99,101>>,
   \* 188: twice ahead apart aside
   <<116,119,105,99,101>>, <<97,104,101,97,100>>, <<97,112,97,114,116>>, <<97,115,105,100,101>>,
   \* 192: along after again early
   <<97,108,111,110,103>>, <<97,102,116,101,114>>, <<97,103,97,105,110>>, <<101,97,114,108,121>>,
   \* 196: later since almost around
   <<108,97,116,101,114>>, <<115,105,110,99,101>>, <<97,108,109,111,115,116>>, <<97,114,111,117,110,100>>
  >>

word_count_for_difficulty(difficulty) ==
  IF difficulty <= 10 THEN 3
  ELSE IF difficulty <= 15 THEN 4
  ELSE IF difficulty <= 20 THEN 5
  ELSE IF difficulty <= 30 THEN 6
  ELSE IF difficulty <= 40 THEN 7
  ELSE 8

\* ((seed[i * 2] as u16) << 8) | (seed[i * 2 + 1] as u16), then % WORDLIST_SIZE
SeedIndex(seed, i) == (seed[2 * i + 1] * 256 + seed[2 * i + 2]) % WORDLIST_SIZE

\* a variant of ProbeFree that does not probe; WordsDistinct does not hold
\* of it
ProbeFreeNone(used, idx, tries) == <<idx, tries>>

\* a variant of ProbeFree that gives up on the first used index;
\* WordCountExact does not hold of it
ProbeFreeGiveUp(used, idx, tries) ==
  IF idx \in used THEN <<idx, WORDLIST_SIZE>> ELSE <<idx, tries>>

RECURSIVE ProbeFree(_, _, _)
\* the "skip duplicates" loop: <<idx, tries>> when it stops
ProbeFree(used, idx, tries) ==
  IF idx \in used /\ tries < WORDLIST_SIZE
  THEN ProbeFree(used, (idx + 1) % WORDLIST_SIZE, tries + 1)
  ELSE <<idx, tries>>

RECURSIVE DeriveLoop(_, _, _, _, _)
\* the outer loop of derive_words from word i on; `used` is the set of
\* indices marked in the used array, `res` the RequiredWords built so far
DeriveLoop(seed, i, count, used, res) ==
  IF i >= count THEN res
  ELSE LET p == ProbeFree(used, SeedIndex(seed, i), 0)
       IN  IF p[2] >= WORDLIST_SIZE
           THEN [res EXCEPT !.count = i]
           ELSE LET word == WORDLIST[p[1] + 1]
                    len == Min(Len(word), MAX_WORD_LEN)
                IN  DeriveLoop(seed, i + 1, count, used \cup {p[1]},
                               [res EXCEPT !.words[i + 1] = SubSeq(word, 1, len),
                                           !.lens[i + 1] = len])

\* derive_words for a given word count: words[k] holds the lens[k] bytes
\* written to slot k (the slots never written stay empty)
DeriveCount(seed, count) ==
  DeriveLoop(seed, 0, count, {},
             [words |-> [k \in 1..MAX_REQUIRED |-> <<>>],
              lens |-> [k \in 1..MAX_REQUIRED |-> 0],
              count |-> count])

derive_words(seed, difficulty) ==
  DeriveCount(seed, word_count_for_difficulty(difficulty))

\* active_words of submit_solution: &all_words[..rw.count]
ActiveWords(rw) == [k \in 1..rw.count |-> rw.words[k]]

(***************************************************************************)
(* lib.rs: helper functions                                                *)
(***************************************************************************)

RECURSIVE ZeroBytes(_, _, _)
\* the loop over the first full_bytes bytes: TRUE when all of hash[i..] are 0
ZeroBytes(hash, i, full_bytes) ==
  IF i >= full_bytes THEN TRUE
  ELSE IF hash[i + 1] # 0 THEN FALSE
  ELSE ZeroBytes(hash, i + 1, full_bytes)

\* a variant of PowMask that keeps only the lowest bit of the mask;
\* PowCorrect does not hold of it
PowMaskLow(remaining_bits) == 2 ^ (8 - remaining_bits)

\* (0xFF << (8 - remaining_bits)) as u8
PowMask(remaining_bits) == (255 * (2 ^ (8 - remaining_bits))) % 256

check_difficulty(hash, difficulty) ==
  IF difficulty = 0 THEN TRUE
  ELSE IF difficulty >= 256 THEN FALSE
  ELSE LET full_bytes == difficulty \div 8
           remaining_bits == difficulty % 8
       IN  IF ~ZeroBytes(hash, 0, full_bytes) THEN FALSE
           ELSE IF remaining_bits > 0 /\ full_bytes < 32
                   /\ BitAnd(hash[full_bytes + 1], PowMask(remaining_bits), 8) # 0
           THEN FALSE
           ELSE TRUE

RECURSIVE Shr(_, _)
\* x >> n
Shr(x, n) == IF n = 0 THEN x ELSE Shr(x \div 2, n - 1)

RECURSIVE BitLength(_)
\* 64 - x.leading_zeros() of a u64 x: the number of bits of x
BitLength(x) == IF x = 0 THEN 0 ELSE 1 + BitLength(x \div 2)

\* a variant of log2_ceil that rounds down; DifficultyFormula does not hold
\* of it
log2_floor(x) == IF x <= 1 THEN 0 ELSE BitLength(x) - 1

log2_ceil(x) == IF x <= 1 THEN 0 ELSE BitLength(x - 1)

(***************************************************************************)
(* Input texts.  The sentences are those of verify.rs's tests              *)
(* (natural_text), with a four-word and a 37-word sentence added; a text   *)
(* is a list of sentences joined by single spaces.                         *)
(***************************************************************************)

\*   The weather in the morning was rather interesting and pleasant for an
\*   early spring day in the northern hemisphere.
SENT_A ==
  <<
   84,104,101,32,119,101,97,116,104,101,114,32,105,110,32,116,104,101,32,109,111,114,110,105,
   110,103,32,119,97,115,32,114,97,116,104,101,114,32,105,110,116,101,114,101,115,116,105,110,
   103,32,97,110,100,32,112,108,101,97,115,97,110,116,32,102,111,114,32,97,110,32,101,97,
   114,108,121,32,115,112,114,105,110,103,32,100,97,121,32,105,110,32,116,104,101,32,110,111,
   114,116,104,101,114,110,32,104,101,109,105,115,112,104,101,114,101,46
  >>

\*   Have you ever wondered whether the inner workings of nature can truly
\*   be understood through simple observation and careful thinking about
\*   the patterns that emerge in everything around us?
SENT_B ==
  <<
   72,97,118,101,32,121,111,117,32,101,118,101,114,32,119,111,110,100,101,114,101,100,32,119,
   104,101,116,104,101,114,32,116,104,101,32,105,110,110,101,114,32,119,111,114,107,105,110,103,
   115,32,111,102,32,110,97,116,117,114,101,32,99,97,110,32,116,114,117,108,121,32,98,101,
   32,117,110,100,101,114,115,116,111,111,100,32,116,104,114,111,117,103,104,32,115,105,109,112,
   108,101,32,111,98,115,101,114,118,97,116,105,111,110,32,97,110,100,32,99,97,114,101,102,
   117,108,32,116,104,105,110,107,105,110,103,32,97,98,111,117,116,32,116,104,101,32,112,97,
   116,116,101,114,110,115,32,116,104,97,116,32,101,109,101,114,103,101,32,105,110,32,101,118,
   101,114,121,116,104,105,110,103,32,97,114,111,117,110,100,32,117,115,63
  >>

\*   The ancient trees in the garden were standing tall and their branches
\*   reached toward the bright sky above.
SENT_C ==
  <<
   84,104,101,32,97,110,99,105,101,110,116,32,116,114,101,101,115,32,105,110,32,116,104,101,
   32,103,97,114,100,101,110,32,119,101,114,101,32,115,116,97,110,100,105,110,103,32,116,97,
   108,108,32,97,110,100,32,116,104,101,105,114,32,98,114,97,110,99,104,101,115,32,114,101,
   97,99,104,101,100,32,116,111,119,97,114,100,32,116,104,101,32,98,114,105,103,104,116,32,
   115,107,121,32,97,98,111,118,101,46
  >>

\*   The morning air felt crisp and fresh.
SENT_D ==
  <<
   84,104,101,32,109,111,114,110,105,110,103,32,97,105,114,32,102,101,108,116,32,99,114,105,
   115,112,32,97,110,100,32,102,114,101,115,104,46
  >>

\*   Another interesting thing happened when the river began to change
\*   direction and the water flowed in an entirely different manner than
\*   before.
SENT_E ==
  <<
   65,110,111,116,104,101,114,32,105,110,116,101,114,101,115,116,105,110,103,32,116,104,105,110,
   103,32,104,97,112,112,101,110,101,100,32,119,104,101,110,32,116,104,101,32,114,105,118,101,
   114,32,98,101,103,97,110,32,116,111,32,99,104,97,110,103,101,32,100,105,114,101,99,116,
   105,111,110,32,97,110,100,32,116,104,101,32,119,97,116,101,114,32,102,108,111,119,101,100,
   32,105,110,32,97,110,32,101,110,116,105,114,101,108,121,32,100,105,102,102,101,114,101,110,
   116,32,109,97,110,110,101,114,32,116,104,97,110,32,98,101,102,111,114,101,46
  >>

\*   Is there anything more beautiful than a quiet evening spent reading by
\*   the fireplace?
SENT_F ==
  <<
   73,115,32,116,104,101,114,101,32,97,110,121,116,104,105,110,103,32,109,111,114,101,32,98,
   101,97,117,116,105,102,117,108,32,116,104,97,110,32,97,32,113,117,105,101,116,32,101,118,
   101,110,105,110,103,32,115,112,101,110,116,32,114,101,97,100,105,110,103,32,98,121,32,116,
   104,101,32,102,105,114,101,112,108,97,99,101,63
  >>

\*   It was so cold.
SENT_G ==
  <<
   73,116,32,119,97,115,32,115,111,32,99,111,108,100,46
  >>

\*   We sat there in the evening and then we went on and on in the rain and
\*   the wind and the sun for another hour and then another and then one
\*   other after that in the garden.
SENT_H ==
  <<
   87,101,32,115,97,116,32,116,104,101,114,101,32,105,110,32,116,104,101,32,101,118,101,110,
   105,110,103,32,97,110,100,32,116,104,101,110,32,119,101,32,119,101,110,116,32,111,110,32,
   97,110,100,32,111,110,32,105,110,32,116,104,101,32,114,97,105,110,32,97,110,100,32,116,
   104,101,32,119,105,110,100,32,97,110,100,32,116,104,101,32,115,117,110,32,102,111,114,32,
   97,110,111,116,104,101,114,32,104,111,117,114,32,97,110,100,32,116,104,101,110,32,97,110,
   111,116,104,101,114,32,97,110,100,32,116,104,101,110,32,111,110,101,32,111,116,104,101,114,
   32,97,102,116,101,114,32,116,104,97,116,32,105,110,32,116,104,101,32,103,97,114,100,101,
   110,46
  >>

RECURSIVE JoinSentences(_)
\* the sentences of the list ss, a space between two of them
JoinSentences(ss) ==
  IF Len(ss) = 0 THEN <<>>
  ELSE IF Len(ss) = 1 THEN ss[1]
  ELSE ss[1] \o <<32>> \o JoinSentences(Tail(ss))

\* the input texts, by number
TEXTS ==
  <<JoinSentences(<<SENT_D, SENT_E, SENT_F>>),
    JoinSentences(<<SENT_D, SENT_E, SENT_F, SENT_D>>),
    JoinSentences(<<SENT_D, SENT_F, SENT_A, SENT_C>>),
    JoinSentences(<<SENT_D, SENT_E, SENT_C>>),
    JoinSentences(<<SENT_D, SENT_E, SENT_F, SENT_G>>),
    JoinSentences(<<SENT_D, SENT_F>>),
    JoinSentences(<<SENT_A, SENT_B, SENT_C, SENT_D, SENT_E, SENT_F>>),
    JoinSentences(<<SENT_E, SENT_F, SENT_D>>),
    JoinSentences(<<SENT_D, SENT_H, SENT_F>>)>>

(***************************************************************************)
(* lib.rs: constants.  The model checker's integers are 32 bits wide, so   *)
(* the token amounts cannot keep their values (5 * 10^12 and more), and    *)
(* an expiry of 500 epochs of 600 seconds cannot be run through: these     *)
(* four constants are scaled down, MAX_SUPPLY keeping its relation         *)
(* 2 * INITIAL_REWARD * HALVING_INTERVAL to the other two                  *)
(* (2.1 * 10^18 = 2 * (5 * 10^12) * 210000).  The difficulty constants     *)
(* keep their values.                                                      *)
(***************************************************************************)

INITIAL_REWARD == 4
HALVING_INTERVAL == 1
MAX_SUPPLY == 2 * INITIAL_REWARD * HALVING_INTERVAL
EPOCH_DURATION == 2
CLAIM_EXPIRY_EPOCHS == 2
TARGET_SOLUTIONS == 50
INITIAL_DIFFICULTY == 8
MAX_DIFFICULTY == 250
MIN_DIFFICULTY == 4
MAX_DIFFICULTY_ADJ == 5

\* a variant of calculate_reward that halves one claim late;
\* RewardHalves does not hold of it
calculate_rewardLate(total_mined) ==
  LET halvings == total_mined \div (HALVING_INTERVAL + 1)
  IN  IF halvings >= 64 THEN 0 ELSE Shr(INITIAL_REWARD, halvings)

\* a variant of calculate_reward that rounds the halved reward up;
\* SupplyBelowCap does not hold of it
calculate_rewardRoundUp(total_mined) ==
  LET halvings == total_mined \div HALVING_INTERVAL
  IN  IF halvings >= 64 THEN 0
      ELSE Max(Shr(INITIAL_REWARD, halvings), 1)

calculate_reward(total_mined) ==
  LET halvings == total_mined \div HALVING_INTERVAL
  IN  IF halvings >= 64 THEN 0 ELSE Shr(INITIAL_REWARD, halvings)

\* a variant of ActualReward without the halving and without the cap;
\* SupplyCapped does not hold of it
ActualRewardFlat(total_mined, total_supply) == INITIAL_REWARD

\* a variant of ActualReward that reads the reward of the next claim;
\* ClaimPays does not hold of it
ActualRewardNext(total_mined, total_supply) ==
  Min(calculate_reward(total_mined + 1), SatSub(MAX_SUPPLY, total_supply))

\* claim's actual_reward: reward.min(MAX_SUPPLY.saturating_sub(total_supply))
ActualReward(total_mined, total_supply) ==
  Min(calculate_reward(total_mined), SatSub(MAX_SUPPLY, total_supply))

\* a variant of AdjustDifficulty that leaves out .min(MAX_DIFFICULTY);
\* DifficultyInRange does not hold of it
AdjustDifficultyNoMax(difficulty, solution_count) ==
  LET target == TARGET_SOLUTIONS
  IN  IF solution_count > target + (target \div 5)
      THEN LET ratio == solution_count \div target
               increase == Min(Max(log2_ceil(ratio), 1), MAX_DIFFICULTY_ADJ)
           IN  difficulty + increase
      ELSE IF solution_count = 0
      THEN Max(SatSub(difficulty, MAX_DIFFICULTY_ADJ), MIN_DIFFICULTY)
      ELSE IF solution_count < SatSub(target, target \div 5)
      THEN LET ratio == target \div solution_count
               decrease == Min(Max(log2_ceil(ratio), 1), MAX_DIFFICULTY_ADJ)
           IN  Max(SatSub(difficulty, decrease), MIN_DIFFICULTY)
      ELSE difficulty

\* a variant of AdjustDifficulty that leaves out .min(MAX_DIFFICULTY_ADJ);
\* StepBounded does not hold of it
AdjustDifficultyUncapped(difficulty, solution_count) ==
  LET target == TARGET_SOLUTIONS
  IN  IF solution_count > target + (target \div 5)
      THEN LET ratio == solution_count \div target
               increase == Max(log2_ceil(ratio), 1)
           IN  Min(difficulty + increase, MAX_DIFFICULTY)
      ELSE IF solution_count = 0
      THEN Max(SatSub(difficulty, MAX_DIFFICULTY_ADJ), MIN_DIFFICULTY)
      ELSE IF solution_count < SatSub(target, target \div 5)
      THEN LET ratio == target \div solution_count
               decrease == Max(log2_ceil(ratio), 1)
           IN  Max(SatSub(difficulty, decrease), MIN_DIFFICULTY)
      ELSE difficulty

\* a variant of AdjustDifficulty that lowers the difficulty by 1 only after
\* an empty epoch; DifficultyMonotone does not hold of it
AdjustDifficultyEmptyStep(difficulty, solution_count) ==
  LET target == TARGET_SOLUTIONS
  IN  IF solution_count > target + (target \div 5)
      THEN LET ratio == solution_count \div target
               increase == Min(Max(log2_ceil(ratio), 1), MAX_DIFFICULTY_ADJ)
           IN  Min(difficulty + increase, MAX_DIFFICULTY)
      ELSE IF solution_count = 0
      THEN Max(SatSub(difficulty, 1), MIN_DIFFICULTY)
      ELSE IF solution_count < SatSub(target, target \div 5)
      THEN LET ratio == target \div solution_count
               decrease == Min(Max(log2_ceil(ratio), 1), MAX_DIFFICULTY_ADJ)
           IN  Max(SatSub(difficulty, decrease), MIN_DIFFICULTY)
      ELSE difficulty

\* a variant of AdjustDifficulty without the floor after an empty epoch;
\* EmptyEpochsDrain does not hold of it
AdjustDifficultyNoFloor(difficulty, solution_count) ==
  LET target == TARGET_SOLUTIONS
  IN  IF solution_count > target + (target \div 5)
      THEN LET ratio == solution_count \div target
               increase == Min(Max(log2_ceil(ratio), 1), MAX_DIFFICULTY_ADJ)
           IN  Min(difficulty + increase, MAX_DIFFICULTY)
      ELSE IF solution_count = 0
      THEN SatSub(difficulty, MAX_DIFFICULTY_ADJ)
      ELSE IF solution_count < SatSub(target, target \div 5)
      THEN LET ratio == target \div solution_count
               decrease == Min(Max(log2_ceil(ratio), 1), MAX_DIFFICULTY_ADJ)
           IN  Max(SatSub(difficulty, decrease), MIN_DIFFICULTY)
      ELSE difficulty

\* advance_epoch's difficulty adjustment: the new difficulty
AdjustDifficulty(difficulty, solution_count) ==
  LET target == TARGET_SOLUTIONS
  IN  IF solution_count > target + (target \div 5)
      THEN LET ratio == solution_count \div target
               increase == Min(Max(log2_ceil(ratio), 1), MAX_DIFFICULTY_ADJ)
           IN  Min(difficulty + increase, MAX_DIFFICULTY)
      ELSE IF solution_count = 0
      THEN Max(SatSub(difficulty, MAX_DIFFICULTY_ADJ), MIN_DIFFICULTY)
      ELSE IF solution_count < SatSub(target, target \div 5)
      THEN LET ratio == target \div solution_count
               decrease == Min(Max(log2_ceil(ratio), 1), MAX_DIFFICULTY_ADJ)
           IN  Max(SatSub(difficulty, decrease), MIN_DIFFICULTY)
      ELSE difficulty

(***************************************************************************)
(* Bounds and inputs of the ledger model.                                  *)
(***************************************************************************)

\* the clock stops at MaxTime
MaxTime == 4
\* the keys of the miners and signers; key 1 pays for initialize and so is
\* the crank authority (set_crank_authority, which only replaces that key,
\* and create_metadata, which changes no account of the program, are not
\* modelled)
Keys == {1, 2}

\* keccak is an external primitive: a hash it returns is one of these
\* values.  The first eight 16-bit pairs select the words morning, river,
\* quiet, evening, ... in the first seed and time, life, world, ... in the
\* second.
SEEDS ==
  <<<<0, 57, 0, 13, 0, 121, 0, 58, 0, 39, 0, 157, 0, 4, 0, 32>>
      \o [k \in 1..16 |-> 0],
    <<0, 0, 0, 1, 0, 2, 0, 3, 0, 4, 0, 5, 0, 6, 0, 7>>
      \o [k \in 1..16 |-> 255]>>

\* digests with 256 and with 7 leading zero bits
DIGESTS == {[k \in 1..32 |-> 0], [k \in 1..32 |-> IF k = 1 THEN 1 ELSE 0]}

\* the texts submitted to the ledger
LEDGER_TEXTS == {1, 2}

\* the solution counts the crank reports
LEDGER_COUNTS == {0, 50, 200}

\* verify_text on text t under the words derived from seed SEEDS[k] for a
\* word count n: "accept", "reject" or "fault"
VerdictAt(t, k, n) ==
  LET r == verify_text(TEXTS[t], ActiveWords(DeriveCount(SEEDS[k], n)))
  IN  IF r.pc = "fault" THEN "fault"
      ELSE IF r.result THEN "accept" ELSE "reject"

\* VerdictAt tabulated once, by text, seed and word count
VERDICTS ==
  [t \in LEDGER_TEXTS |->
     SubSeq([k \in 1..Len(SEEDS) |->
               SubSeq([n \in 1..MAX_REQUIRED |->
                         IF n < 3 THEN "none" ELSE VerdictAt(t, k, n)],
                      1, MAX_REQUIRED)],
            1, Len(SEEDS))]

SeedId(seed) == CHOOSE k \in 1..Len(SEEDS) : SEEDS[k] = seed

\* the verdict of verify_text(text, active_words) in submit_solution
Verdict(t, seed, difficulty) ==
  VERDICTS[t][SeedId(seed)][word_count_for_difficulty(difficulty)]


(***************************************************************************)
(* State.                                                                  *)
(*   mine_state  the MineState account (mint and bump never change and     *)
(*               are left out)                                             *)
(*   solutions   the Solution accounts that exist                          *)
(*   minted      the tokens minted to each key's token account             *)
(*   clock       Clock::get()?.unix_timestamp                              *)
(*   last        the last instruction: its name, the number of the text    *)
(*               it was given (submit_solution; 0 otherwise) and its       *)
(*               outcome ("Ok" or the error it failed with)                *)
(*   call        the pure function applied by the function specifications  *)
(*               below: its name, its arguments and, once applied, its     *)
(*               result                                                    *)
(***************************************************************************)
VARIABLES mine_state, solutions, minted, clock, last, call

vars == <<mine_state, solutions, minted, clock, last, call>>

ledger == <<mine_state, solutions, minted, clock, last>>

NoCall == [fn |-> "none", args |-> <<>>, done |-> FALSE, ret |-> <<>>]

\* initialize, called by `payer` at time `now`, keccak returning `seed`
Initialize(payer, now, seed) ==
  /\ mine_state = [total_mined |-> 0,
                   difficulty |-> INITIAL_DIFFICULTY,
                   challenge_seed |-> seed,
                   epoch_number |-> 0,
                   epoch_start_time |-> now,
                   epoch_end_time |-> now + EPOCH_DURATION,
                   solutions_in_epoch |-> 0,
                   settled_in_epoch |-> 0,
                   total_supply |-> 0,
                   crank_authority |-> payer]
  /\ solutions = {}
  /\ minted = [k \in Keys |-> 0]
  /\ clock = now
  /\ last = [op |-> "initialize", text |-> 0, err |-> "Ok"]

\* the Solution account of (miner, epoch), if it exists
SolutionsOf(miner, epoch) ==
  {s \in solutions : s.miner = miner /\ s.epoch = epoch}

\* a variant of SubmitError without the test of the epoch's end;
\* SubmitChecked does not hold of it
SubmitErrorLate(miner, t, digest) ==
  IF SolutionsOf(miner, mine_state.epoch_number) # {} THEN "AccountInUse"
  ELSE IF ~(mine_state.total_supply < MAX_SUPPLY) THEN "MaxSupplyReached"
  ELSE IF Verdict(t, mine_state.challenge_seed, mine_state.difficulty) = "fault"
  THEN "Panic"
  ELSE IF Verdict(t, mine_state.challenge_seed, mine_state.difficulty) # "accept"
  THEN "InvalidText"
  ELSE IF ~check_difficulty(digest, mine_state.difficulty)
  THEN "InsufficientDifficulty"
  ELSE "Ok"

\* a variant of SubmitError that still takes a submission at epoch_end_time;
\* GuardsExclusive does not hold of it
SubmitErrorInclusive(miner, t, digest) ==
  IF SolutionsOf(miner, mine_state.epoch_number) # {} THEN "AccountInUse"
  ELSE IF ~(clock <= mine_state.epoch_end_time) THEN "EpochEnded"
  ELSE IF ~(mine_state.total_supply < MAX_SUPPLY) THEN "MaxSupplyReached"
  ELSE IF Verdict(t, mine_state.challenge_seed, mine_state.difficulty) = "fault"
  THEN "Panic"
  ELSE IF Verdict(t, mine_state.challenge_seed, mine_state.difficulty) # "accept"
  THEN "InvalidText"
  ELSE IF ~check_difficulty(digest, mine_state.difficulty)
  THEN "InsufficientDifficulty"
  ELSE "Ok"

\* the outcome of submit_solution(text, nonce) signed by miner, keccak
\* returning `digest`: the account constraints first (init of the Solution
\* PDA), then the handler's checks in their order
SubmitError(miner, t, digest) ==
  IF SolutionsOf(miner, mine_state.epoch_number) # {} THEN "AccountInUse"
  ELSE IF ~(clock < mine_state.epoch_end_time) THEN "EpochEnded"
  ELSE IF ~(mine_state.total_supply < MAX_SUPPLY) THEN "MaxSupplyReached"
  ELSE IF Verdict(t, mine_state.challenge_seed, mine_state.difficulty) = "fault"
  THEN "Panic"
  ELSE IF Verdict(t, mine_state.challenge_seed, mine_state.difficulty) # "accept"
  THEN "InvalidText"
  ELSE IF ~check_difficulty(digest, mine_state.difficulty)
  THEN "InsufficientDifficulty"
  ELSE "Ok"

\* a variant of SubmitSolution that counts the solution in mine_state;
\* SubmitFrame does not hold of it
SubmitSolutionCounting(miner, t, nonce, digest) ==
  LET err == SubmitError(miner, t, digest)
  IN  /\ last' = [op |-> "submit_solution", text |-> t, err |-> err]
      /\ solutions' =
           IF err = "Ok"
           THEN solutions \cup {[miner |-> miner,
                                 epoch |-> mine_state.epoch_number,
                                 nonce |-> nonce,
                                 hash |-> digest]}
           ELSE solutions
      /\ mine_state' =
           IF err = "Ok"
           THEN [mine_state EXCEPT !.solutions_in_epoch = @ + 1]
           ELSE mine_state
      /\ UNCHANGED <<minted, clock, call>>

SubmitSolution(miner, t, nonce, digest) ==
  LET err == SubmitError(miner, t, digest)
  IN  /\ last' = [op |-> "submit_solution", text |-> t, err |-> err]
      /\ solutions' =
           IF err = "Ok"
           THEN solutions \cup {[miner |-> miner,
                                 epoch |-> mine_state.epoch_number,
                                 nonce |-> nonce,
                                 hash |-> digest]}
           ELSE solutions
      /\ UNCHANGED <<mine_state, minted, clock, call>>

\* a variant of EpochOver that takes every epoch for ended;
\* ClaimedOnce does not hold of it
EpochOverAlways(solution_epoch) == TRUE

\* claim's "solution's epoch must have ended"
EpochOver(solution_epoch) ==
  IF solution_epoch < mine_state.epoch_number THEN TRUE
  ELSE IF solution_epoch = mine_state.epoch_number
  THEN clock >= mine_state.epoch_end_time
  ELSE FALSE

\* a variant of ClaimError without the test of the expiry;
\* ClaimOrClose does not hold of it
ClaimErrorNoExpiry(s, recipient) ==
  IF recipient # s.miner THEN "InvalidRecipient"
  ELSE IF ~EpochOver(s.epoch) THEN "EpochNotEnded"
  ELSE "Ok"

\* the outcome of claim on Solution s with the token account and the rent
\* recipient of key `recipient`
ClaimError(s, recipient) ==
  IF recipient # s.miner THEN "InvalidRecipient"
  ELSE IF ~EpochOver(s.epoch) THEN "EpochNotEnded"
  ELSE IF ~(mine_state.epoch_number < s.epoch + CLAIM_EXPIRY_EPOCHS)
  THEN "ClaimExpired"
  ELSE "Ok"

Claim(s, recipient) ==
  LET err == ClaimError(s, recipient)
      actual_reward == ActualReward(mine_state.total_mined, mine_state.total_supply)
  IN  /\ s \in solutions
      /\ last' = [op |-> "claim", text |-> 0, err |-> err]
      /\ IF err = "Ok"
         THEN /\ minted' = [minted EXCEPT ![recipient] = @ + actual_reward]
              /\ mine_state' =
                   [mine_state EXCEPT
                      !.total_mined = @ + 1,
                      !.total_supply = IF actual_reward > 0
                                       THEN @ + actual_reward ELSE @]
              /\ solutions' = solutions \ {s}
         ELSE UNCHANGED <<mine_state, solutions, minted>>
      /\ UNCHANGED <<clock, call>>

\* a variant of AdvanceError without the test of the epoch's end;
\* EpochTiming does not hold of it
AdvanceErrorAnytime(crank) ==
  IF crank # mine_state.crank_authority THEN "Unauthorized" ELSE "Ok"

\* the outcome of advance_epoch signed by `crank`
AdvanceError(crank) ==
  IF crank # mine_state.crank_authority THEN "Unauthorized"
  ELSE IF ~(clock >= mine_state.epoch_end_time) THEN "EpochNotEnded"
  ELSE "Ok"

\* a variant of AdvanceEpoch that also clears total_supply;
\* SupplyMonotone does not hold of it
AdvanceEpochReset(crank, solution_count, seed) ==
  LET err == AdvanceError(crank)
  IN  /\ last' = [op |-> "advance_epoch", text |-> 0, err |-> err]
      /\ IF err = "Ok"
         THEN mine_state' =
                [mine_state EXCEPT
                   !.difficulty = AdjustDifficulty(@, solution_count),
                   !.solutions_in_epoch = solution_count,
                   !.challenge_seed = seed,
                   !.epoch_number = @ + 1,
                   !.epoch_start_time = clock,
                   !.epoch_end_time = clock + EPOCH_DURATION,
                   !.settled_in_epoch = 0,
                   !.total_supply = 0]
         ELSE UNCHANGED mine_state
      /\ UNCHANGED <<solutions, minted, clock, call>>

\* a variant of AdvanceEpoch that leaves epoch_end_time;
\* RotationsSpaced does not hold of it
AdvanceEpochStale(crank, solution_count, seed) ==
  LET err == AdvanceError(crank)
  IN  /\ last' = [op |-> "advance_epoch", text |-> 0, err |-> err]
      /\ IF err = "Ok"
         THEN mine_state' =
                [mine_state EXCEPT
                   !.difficulty = AdjustDifficulty(@, solution_count),
                   !.solutions_in_epoch = solution_count,
                   !.challenge_seed = seed,
                   !.epoch_number = @ + 1,
                   !.epoch_start_time = clock,
                   !.settled_in_epoch = 0]
         ELSE UNCHANGED mine_state
      /\ UNCHANGED <<solutions, minted, clock, call>>

AdvanceEpoch(crank, solution_count, seed) ==
  LET err == AdvanceError(crank)
  IN  /\ last' = [op |-> "advance_epoch", text |-> 0, err |-> err]
      /\ IF err = "Ok"
         THEN mine_state' =
                [mine_state EXCEPT
                   !.difficulty = AdjustDifficulty(@, solution_count),
                   !.solutions_in_epoch = solution_count,
                   !.challenge_seed = seed,
                   !.epoch_number = @ + 1,
                   !.epoch_start_time = clock,
                   !.epoch_end_time = clock + EPOCH_DURATION,
                   !.settled_in_epoch = 0]
         ELSE UNCHANGED mine_state
      /\ UNCHANGED <<solutions, minted, clock, call>>

\* the outcome of close_expired on Solution s
CloseError(s) ==
  IF ~(mine_state.epoch_number >= s.epoch + CLAIM_EXPIRY_EPOCHS)
  THEN "NotExpired"
  ELSE "Ok"

\* a variant of CloseExpired that closes the account whatever the outcome;
\* RejectedChangesNothing does not hold of it
CloseExpiredEager(s, closer) ==
  LET err == CloseError(s)
  IN  /\ s \in solutions
      /\ last' = [op |-> "close_expired", text |-> 0, err |-> err]
      /\ solutions' = solutions \ {s}
      /\ UNCHANGED <<mine_state, minted, clock, call>>

CloseExpired(s, closer) ==
  LET err == CloseError(s)
  IN  /\ s \in solutions
      /\ last' = [op |-> "close_expired", text |-> 0, err |-> err]
      /\ solutions' = IF err = "Ok" THEN solutions \ {s} ELSE solutions
      /\ UNCHANGED <<mine_state, minted, clock, call>>

\* time passes
Tick ==
  /\ clock < MaxTime
  /\ clock' = clock + 1
  /\ UNCHANGED <<mine_state, solutions, minted, last, call>>

Init ==
  /\ Initialize(1, 0, SEEDS[1])
  /\ call = NoCall

Next ==
  \/ \E miner \in Keys : \E t \in LEDGER_TEXTS : \E digest \in DIGESTS :
        SubmitSolution(miner, t, 0, digest)
  \/ \E s \in solutions : \E recipient \in Keys : Claim(s, recipient)
  \/ \E crank \in Keys : \E n \in LEDGER_COUNTS : \E k \in 1..Len(SEEDS) :
        AdvanceEpoch(crank, n, SEEDS[k])
  \/ \E s \in solutions : \E closer \in Keys : CloseExpired(s, closer)
  \/ Tick

Spec == Init /\ [][Next]_vars

(***************************************************************************)
(* Long runs of epoch rotations: the crank waits for the end of the epoch  *)
(* and calls advance_epoch, MaxRotations times at most.                    *)
(***************************************************************************)

MaxRotations == 50

\* the solution counts the crank reports in the long runs: an empty epoch,
\* far too few, on target, far too many
ROTATE_COUNTS == {0, 1, 50, 2000000000}

\* time passes until the end of the current epoch
EpochEnds ==
  /\ clock < mine_state.epoch_end_time
  /\ clock' = mine_state.epoch_end_time
  /\ UNCHANGED <<mine_state, solutions, minted, last, call>>

Rotate ==
  /\ mine_state.epoch_number < MaxRotations
  /\ \E n \in ROTATE_COUNTS : AdvanceEpoch(1, n, SEEDS[1])

NextRotate == Rotate \/ EpochEnds

SpecRotate == Init /\ [][NextRotate]_vars

(***************************************************************************)
(* Function specifications: a pure function of the program is applied to   *)
(* one input drawn in the initial state; the ledger stays as initialize    *)
(* left it.                                                                *)
(***************************************************************************)

Idle == Initialize(1, 0, SEEDS[1])

CallOf(fn, args) == [fn |-> fn, args |-> args, done |-> FALSE, ret |-> <<>>]

\* the call returns v
Return(v) ==
  /\ ~call.done
  /\ call' = [call EXCEPT !.done = TRUE, !.ret = <<v>>]
  /\ UNCHANGED ledger

\* check_difficulty on digests with z leading zero bits, z = 0..256, the
\* bits after the first one bit all zeros or all ones, at the difficulties
\* 0..MaxPowDifficulty
MaxPowDifficulty == 257

\* bit j (1 = most significant) of the digest with exactly z leading zero
\* bits, a one bit, and then the bit `fill` repeated
BitAt(z, fill, j) == IF j <= z THEN 0 ELSE IF j = z + 1 THEN 1 ELSE fill

POW_DIGESTS ==
  {[k \in 1..32 |->
      128 * BitAt(z, fill, 8 * k - 7) + 64 * BitAt(z, fill, 8 * k - 6)
      + 32 * BitAt(z, fill, 8 * k - 5) + 16 * BitAt(z, fill, 8 * k - 4)
      + 8 * BitAt(z, fill, 8 * k - 3) + 4 * BitAt(z, fill, 8 * k - 2)
      + 2 * BitAt(z, fill, 8 * k - 1) + BitAt(z, fill, 8 * k)] :
     z \in 0..256, fill \in {0, 1}}

InitPow ==
  /\ Idle
  /\ \E digest \in POW_DIGESTS : \E d \in 0..MaxPowDifficulty :
        call = CallOf("check_difficulty", <<digest, d>>)

ApplyCheckDifficulty ==
  /\ call.fn = "check_difficulty"
  /\ Return(check_difficulty(call.args[1], call.args[2]))

SpecPow == InitPow /\ [][ApplyCheckDifficulty]_vars

(***************************************************************************)
(* verify_text applied to a text of TEXTS under a list of at most MaxWords *)
(* required words of VOCAB.                                                *)
(***************************************************************************)

MaxWords == 2

\* the, an, River, quiet, evening, a
VOCAB ==
  {<<116, 104, 101>>, <<97, 110>>, <<82, 105, 118, 101, 114>>,
   <<113, 117, 105, 101, 116>>, <<101, 118, 101, 110, 105, 110, 103>>, <<97>>}

WordLists == UNION {[1..n -> VOCAB] : n \in 0..MaxWords}

InitVerify ==
  /\ Idle
  /\ \E t \in 1..Len(TEXTS) : \E words \in WordLists :
        call = CallOf("verify_text", <<t, words>>)

ApplyVerifyText ==
  /\ call.fn = "verify_text"
  /\ Return(verify_text(TEXTS[call.args[1]], call.args[2]))

SpecVerify == InitVerify /\ [][ApplyVerifyText]_vars

\* verify_text has returned or panicked on the text and the words of `call`
Verified == call.fn = "verify_text" /\ call.done

(***************************************************************************)
(* What a text contains, said without the scanner: the occurrences of a    *)
(* word and the completed sentences.  Offsets are 0-based as in the        *)
(* program, positions in a sequence 1-based.                               *)
(***************************************************************************)

\* a whole-word, case-insensitive occurrence of w starts at offset s
OccursAt(text, w, s) ==
  /\ 0 <= s /\ s + Len(w) <= Len(text)
  /\ \A k \in 1..Len(w) : to_lower(text[s + k]) = to_lower(w[k])
  /\ s = 0 \/ ~is_alpha(text[s])
  /\ s + Len(w) = Len(text) \/ ~is_alpha(text[s + Len(w) + 1])

RECURSIVE ChainFrom(_, _, _, _)
\* occurrences of the words j.. exist in order, the first one starting at
\* `from` or later and each next one MIN_WORD_GAP or more past the end of
\* the one before
ChainFrom(text, words, j, from) ==
  IF j > Len(words) THEN TRUE
  ELSE \E s \in from..Len(text) :
          /\ OccursAt(text, words[j], s)
          /\ ChainFrom(text, words, j + 1, s + Len(words[j]) + MIN_WORD_GAP)

ChainExists(text, words) == ChainFrom(text, words, 1, 0)

\* every word is made of ASCII letters and has two letters or more
LetterWords(words) ==
  \A j \in 1..Len(words) :
     Len(words[j]) >= 2 /\ \A k \in 1..Len(words[j]) : is_alpha(words[j][k])

\* a word starts at position p
WordStart(text, p) ==
  /\ ~(is_whitespace(text[p]) \/ is_sentence_end(text[p]))
  /\ p = 1 \/ is_whitespace(text[p - 1]) \/ is_sentence_end(text[p - 1])

\* the completed sentences of a text: the position of the terminator, the
\* position of the first byte, the number of words, the rank among the
\* completed sentences
Sentences(text) ==
  LET terms == {p \in 1..Len(text) : is_sentence_end(text[p])}
      prev(p) == LET before == {q \in terms : q < p}
                 IN  IF before = {} THEN 0
                     ELSE CHOOSE q \in before : \A r \in before : r <= q
      starts(p) == {q \in (prev(p) + 1)..(p - 1) : WordStart(text, q)}
      ends == {p \in terms : starts(p) # {}}
  IN  {[end |-> p,
        start |-> CHOOSE q \in starts(p) : \A r \in starts(p) : q <= r,
        words |-> Cardinality(starts(p)),
        rank |-> Cardinality({q \in ends : q <= p})] : p \in ends}

\* Sentences tabulated once, by text number
SENTENCES ==
  SubSeq([t \in 1..Len(TEXTS) |-> Sentences(TEXTS[t])], 1, Len(TEXTS))

\* the raw bytes of a completed sentence
SentenceBytes(text, x) == SubSeq(text, x.start, x.end)

(***************************************************************************)
(* Properties of verify_text.                                              *)
(***************************************************************************)

\* C6: when verify_text accepts a text under the words w_1..w_K, the text
\* holds whole-word, case-insensitive occurrences of w_1, ..., w_K in this
\* order, each starting 40 bytes or more past the end of the one before; so
\* a text that lacks a word, or has the words only in another order, is not
\* accepted.
MatchesInOrder ==
  (Verified /\ Accepts(call.ret[1]))
    => ChainExists(TEXTS[call.args[1]], call.args[2])

\* a text is accepted under two required words
MatchesInOrderWitness ==
  /\ Verified /\ Accepts(call.ret[1])
  /\ Len(call.args[2]) = 2

\* C7: for words of two or more ASCII letters, when the text holds
\* whole-word occurrences of w_1..w_K in order with the gaps, the scan does
\* not fault and, run to the end of the text, leaves the word index at K.
MatcherComplete ==
  (Verified /\ LetterWords(call.args[2])
     /\ ChainExists(TEXTS[call.args[1]], call.args[2]))
    => /\ call.ret[1].pc # "fault"
       /\ call.ret[1].i = Len(TEXTS[call.args[1]])
            => call.ret[1].rw_idx = Len(call.args[2])

\* River, the on the first text: "the water" comes too soon after "river",
\* "the fireplace" is taken
MatcherCompleteWitness ==
  /\ Verified
  /\ call.args = <<1, <<<<82, 105, 118, 101, 114>>, <<116, 104, 101>>>>>>
  /\ call.ret[1].i = Len(TEXTS[1])
  /\ call.ret[1].rw_idx = 2
  /\ OccursAt(TEXTS[1], <<116, 104, 101>>, call.ret[1].last_rw_end - 3)
  /\ \E s \in 0..(call.ret[1].last_rw_end - 4) : \E r \in 0..s :
        /\ OccursAt(TEXTS[1], <<116, 104, 101>>, s)
        /\ OccursAt(TEXTS[1], <<82, 105, 118, 101, 114>>, r)

\* the text has two completed sentences of the same bytes among its first
\* SENT_HASH_CAP completed sentences
HasDuplicate(t) ==
  \E x \in SENTENCES[t] : \E y \in SENTENCES[t] :
     /\ x.end < y.end
     /\ y.rank <= SENT_HASH_CAP
     /\ SentenceBytes(TEXTS[t], x) = SentenceBytes(TEXTS[t], y)

\* C8: a text in which two of the first 50 completed sentences have the
\* same bytes, from the first non-whitespace byte through the terminator,
\* is not accepted, whatever the words.
DuplicateRejected ==
  (Verified /\ HasDuplicate(call.args[1])) => ~Accepts(call.ret[1])

\* a text with a repeated sentence, under no required word, is rejected at
\* the terminator of the repetition
DuplicateRejectedWitness ==
  /\ Verified /\ HasDuplicate(call.args[1])
  /\ call.args[2] = <<>>
  /\ call.ret[1].pc = "done" /\ ~call.ret[1].result
  /\ \E y \in SENTENCES[call.args[1]] :
        y.rank > 1 /\ call.ret[1].i = y.end - 1

\* C9: a text with a completed sentence of fewer than 5 or more than 35
\* words is not accepted.
SentenceLengthEnforced ==
  (Verified /\ \E x \in SENTENCES[call.args[1]] :
                  x.words < MIN_SENT_WORDS \/ x.words > MAX_SENT_WORDS)
    => ~Accepts(call.ret[1])

\* a text with a sentence of more than 35 words is rejected at the
\* terminator of that sentence
SentenceLengthEnforcedWitness ==
  /\ Verified
  /\ call.ret[1].pc = "done" /\ ~call.ret[1].result
  /\ \E x \in SENTENCES[call.args[1]] :
        x.words > MAX_SENT_WORDS /\ call.ret[1].i = x.end - 1

\* C10: an accepted text has two completed sentences or more, one that ends
\* in '?', one of 10 words or fewer and one of 20 words or more.
SentenceMixRequired ==
  (Verified /\ Accepts(call.ret[1]))
    => LET ss == SENTENCES[call.args[1]]
       IN  /\ Cardinality(ss) >= MIN_SENT_COUNT
           /\ \E x \in ss : TEXTS[call.args[1]][x.end] = 63
           /\ \E x \in ss : x.words <= SHORT_SENT_WORDS
           /\ \E x \in ss : x.words >= LONG_SENT_WORDS

\* a text of exactly three sentences, one short, one long, one a question,
\* is accepted under no required word
SentenceMixRequiredWitness ==
  /\ Verified /\ Accepts(call.ret[1])
  /\ call.args[2] = <<>>
  /\ Cardinality(SENTENCES[call.args[1]]) = 3

(***************************************************************************)
(* Properties of the ledger.                                               *)
(***************************************************************************)

\* C1: in every reachable state the supply minted so far, total_supply, is
\* at most MAX_SUPPLY.
SupplyCapped == mine_state.total_supply <= MAX_SUPPLY

\* a third claim has paid and more than the first reward is minted
SupplyCappedWitness ==
  /\ last.op = "claim" /\ last.err = "Ok"
  /\ mine_state.total_mined >= 3
  /\ mine_state.total_supply > INITIAL_REWARD

\* C2: a step that creates a Solution account is a submit_solution whose
\* text verify_text accepts under the words derived from the seed and the
\* difficulty of the state it ran in (Verdict tabulates verify_text on the
\* derived words), whose digest check_difficulty accepts
\* at that difficulty, and that ran with the clock before epoch_end_time.
SubmitChecked ==
  [][\A s \in solutions' \ solutions :
        /\ last'.op = "submit_solution"
        /\ Verdict(last'.text, mine_state.challenge_seed,
                   mine_state.difficulty) = "accept"
        /\ check_difficulty(s.hash, mine_state.difficulty)
        /\ clock < mine_state.epoch_end_time]_vars

\* a submit_solution has just recorded a Solution for the current epoch
SubmitCheckedWitness ==
  /\ last.op = "submit_solution" /\ last.err = "Ok"
  /\ \E s \in solutions : s.epoch = mine_state.epoch_number

\* C3: over any sequence of advance_epoch calls the difficulty stays
\* between MIN_DIFFICULTY and MAX_DIFFICULTY.
DifficultyInRange ==
  /\ MIN_DIFFICULTY <= mine_state.difficulty
  /\ mine_state.difficulty <= MAX_DIFFICULTY

\* an advance_epoch has brought the difficulty to MAX_DIFFICULTY, from less
\* than MAX_DIFFICULTY_ADJ below it
DifficultyInRangeWitness ==
  /\ last.op = "advance_epoch" /\ last.err = "Ok"
  /\ mine_state.difficulty = MAX_DIFFICULTY
  /\ mine_state.epoch_number * MAX_DIFFICULTY_ADJ
       > MAX_DIFFICULTY - INITIAL_DIFFICULTY

\* C4: a successful advance_epoch changes the difficulty by at most
\* MAX_DIFFICULTY_ADJ, up or down.
StepBounded ==
  [][mine_state'.epoch_number # mine_state.epoch_number
       => /\ mine_state'.difficulty <= mine_state.difficulty + MAX_DIFFICULTY_ADJ
          /\ mine_state.difficulty <= mine_state'.difficulty + MAX_DIFFICULTY_ADJ]_vars

\* the first advance_epoch, given the largest count, has raised the
\* difficulty by MAX_DIFFICULTY_ADJ
StepBoundedWitness ==
  /\ last.op = "advance_epoch" /\ last.err = "Ok"
  /\ mine_state.epoch_number = 1
  /\ mine_state.solutions_in_epoch = 2000000000
  /\ mine_state.difficulty = INITIAL_DIFFICULTY + MAX_DIFFICULTY_ADJ

\* bit j of a digest, bit 1 being the most significant bit of its first byte
LeadingBit(hash, j) == (hash[((j - 1) \div 8) + 1] \div (2 ^ (7 - ((j - 1) % 8)))) % 2

\* the digest with bit j set
SetLeadingBit(hash, j) ==
  IF LeadingBit(hash, j) = 1 THEN hash
  ELSE [hash EXCEPT ![((j - 1) \div 8) + 1] = @ + 2 ^ (7 - ((j - 1) % 8))]

\* C5: check_difficulty(hash, d) is true exactly when d < 256 and the first
\* d bits of the digest are zero (so d = 0 accepts every digest and d >= 256
\* none), and an accepted digest with its d-th bit set is rejected.
PowCorrect ==
  (call.fn = "check_difficulty" /\ call.done) =>
    LET hash == call.args[1]
        d == call.args[2]
    IN  /\ call.ret[1] = (d < 256 /\ \A j \in 1..d : LeadingBit(hash, j) = 0)
        /\ (call.ret[1] /\ d >= 1)
             => ~check_difficulty(SetLeadingBit(hash, d), d)

\* a digest with exactly 13 leading zero bits is accepted at difficulty 13
PowCorrectWitness ==
  /\ call.fn = "check_difficulty" /\ call.done
  /\ call.args[2] = 13
  /\ LeadingBit(call.args[1], 14) = 1
  /\ call.ret[1] = TRUE

(***************************************************************************)
(* calculate_reward applied to every total_mined up to MaxMined.           *)
(***************************************************************************)

MaxMined == 70

InitReward ==
  /\ Idle
  /\ \E n \in 0..MaxMined : call = CallOf("calculate_reward", <<n>>)

ApplyCalculateReward ==
  /\ call.fn = "calculate_reward"
  /\ Return(calculate_reward(call.args[1]))

SpecReward == InitReward /\ [][ApplyCalculateReward]_vars

\* 2^h, or 2^30 for the exponents from 30 on: the quotient of a reward
\* below 2^30 is 0 for all of these
PowerOfTwo(h) == IF h >= 30 THEN 2 ^ 30 ELSE 2 ^ h

\* C11: calculate_reward(n) is INITIAL_REWARD divided by
\* 2^(n div HALVING_INTERVAL), rounded down, when n div HALVING_INTERVAL is
\* below 64, and 0 otherwise; so it is INITIAL_REWARD at 0, half of it at
\* HALVING_INTERVAL, 0 at 64 * HALVING_INTERVAL, and it does not increase
\* with n.
RewardHalves ==
  (call.fn = "calculate_reward" /\ call.done) =>
    LET n == call.args[1]
        h == n \div HALVING_INTERVAL
        r == call.ret[1]
    IN  /\ r = IF h < 64 THEN INITIAL_REWARD \div PowerOfTwo(h) ELSE 0
        /\ n = 0 => r = INITIAL_REWARD
        /\ n = HALVING_INTERVAL => r = INITIAL_REWARD \div 2
        /\ n = 64 * HALVING_INTERVAL => r = 0
        /\ calculate_reward(n + 1) <= r

\* the reward of the claim number 64 * HALVING_INTERVAL is 0
RewardHalvesWitness ==
  /\ call.fn = "calculate_reward" /\ call.done
  /\ call.args[1] = 64 * HALVING_INTERVAL
  /\ call.ret[1] = 0

\* C12: a successful claim mints min(calculate_reward(total_mined),
\* MAX_SUPPLY - total_supply) of the state it ran in to one token account,
\* adds that amount to total_supply and 1 to total_mined; with total_supply
\* at MAX_SUPPLY the amount is 0.
ClaimPays ==
  [][(last'.op = "claim" /\ last'.err = "Ok" /\ solutions' # solutions)
       => LET pay == Min(calculate_reward(mine_state.total_mined),
                         MAX_SUPPLY - mine_state.total_supply)
          IN  /\ \E k \in Keys : minted' = [minted EXCEPT ![k] = @ + pay]
              /\ mine_state'.total_supply = mine_state.total_supply + pay
              /\ mine_state'.total_mined = mine_state.total_mined + 1
              /\ ActualReward(mine_state.total_mined, MAX_SUPPLY) = 0]_vars

\* the second claim has paid the second reward to the miner with key 2
ClaimPaysWitness ==
  /\ last.op = "claim" /\ last.err = "Ok"
  /\ mine_state.total_mined = 2
  /\ minted[2] = calculate_reward(1) /\ minted[2] > 0
  /\ mine_state.total_supply = calculate_reward(0) + calculate_reward(1)

\* C13: no step lowers total_supply, and a step that changes it is a
\* successful claim.
SupplyMonotone ==
  [][/\ mine_state'.total_supply >= mine_state.total_supply
     /\ mine_state'.total_supply # mine_state.total_supply
          => /\ last'.op = "claim" /\ last'.err = "Ok"
             /\ solutions' # solutions]_vars

\* an epoch has been rotated after the first claim raised total_supply
SupplyMonotoneWitness ==
  /\ last.op = "advance_epoch" /\ last.err = "Ok"
  /\ mine_state.total_mined = 1
  /\ mine_state.total_supply = INITIAL_REWARD

(***************************************************************************)
(* derive_words applied to seeds whose eight 16-bit pairs are each one of  *)
(* SEED_RAWS, at the difficulties WORD_DIFFICULTIES.                       *)
(***************************************************************************)

\* 199 and 399 reduce to the last index of the lexicon, 0 to the first,
\* which is also where probing from the last index wraps to
SEED_RAWS == {199, 399, 0}

WORD_SEEDS ==
  {[k \in 1..32 |->
      IF k > 16 THEN 0
      ELSE IF k % 2 = 1 THEN raw[(k + 1) \div 2] \div 256
      ELSE raw[k \div 2] % 256] : raw \in [1..8 -> SEED_RAWS]}

\* the difficulties on both sides of each step of the word count, the
\* smallest and the largest difficulty of the ledger, and a large one
WORD_DIFFICULTIES ==
  {0, 4, 10, 11, 15, 16, 20, 21, 30, 31, 40, 41, 250, 2000000000}

InitWords ==
  /\ Idle
  /\ \E seed \in WORD_SEEDS : \E d \in WORD_DIFFICULTIES :
        call = CallOf("derive_words", <<seed, d>>)

ApplyDeriveWords ==
  /\ call.fn = "derive_words"
  /\ Return(derive_words(call.args[1], call.args[2]))

SpecWords == InitWords /\ [][ApplyDeriveWords]_vars

\* C14: the first `count` words derive_words returns are pairwise distinct,
\* also when seed pairs reduce to the same index and probing wraps around.
WordsDistinct ==
  (call.fn = "derive_words" /\ call.done) =>
    LET rw == call.ret[1]
    IN  \A j \in 1..rw.count : \A k \in 1..rw.count :
           j # k => rw.words[j] # rw.words[k]

\* all eight pairs reduce to the last index: the words are the last word of
\* the lexicon and then, wrapped around, its first seven
WordsDistinctWitness ==
  /\ call.fn = "derive_words" /\ call.done
  /\ \A i \in 0..7 : SeedIndex(call.args[1], i) = WORDLIST_SIZE - 1
  /\ call.ret[1].count = 8
  /\ call.ret[1].words[1] = WORDLIST[WORDLIST_SIZE]
  /\ \A k \in 2..8 : call.ret[1].words[k] = WORDLIST[k - 1]

\* the word count the difficulty asks for
WordCountOf(d) ==
  CASE d <= 10 -> 3
    [] d > 10 /\ d <= 15 -> 4
    [] d > 15 /\ d <= 20 -> 5
    [] d > 20 /\ d <= 30 -> 6
    [] d > 30 /\ d <= 40 -> 7
    [] d > 40 -> 8

\* C15: derive_words returns word_count_for_difficulty(difficulty) words,
\* that is 3, 4, 5, 6, 7 or 8 words for a difficulty up to 10, 15, 20, 30,
\* 40 or above, a count that does not decrease with the difficulty; the
\* result is never truncated.
WordCountExact ==
  (call.fn = "derive_words" /\ call.done) =>
    LET rw == call.ret[1]
        d == call.args[2]
    IN  /\ rw.count = WordCountOf(d)
        /\ word_count_for_difficulty(d) = WordCountOf(d)
        /\ Len(ActiveWords(rw)) = WordCountOf(d)
        /\ \A k \in 1..rw.count : rw.lens[k] > 0 /\ Len(rw.words[k]) = rw.lens[k]
        /\ word_count_for_difficulty(d + 1) >= word_count_for_difficulty(d)
        /\ 3 <= rw.count /\ rw.count <= MAX_REQUIRED

\* seven words are derived at difficulty 40 from a seed whose pairs all
\* reduce to the first index
WordCountExactWitness ==
  /\ call.fn = "derive_words" /\ call.done
  /\ call.args[2] = 40
  /\ \A i \in 0..7 : SeedIndex(call.args[1], i) = 0
  /\ call.ret[1].count = 7
  /\ call.ret[1].lens[7] > 0 /\ call.ret[1].lens[8] = 0

\* C16: verify_text returns true or false on every text and every list of
\* required words, one-byte words included: it never indexes a required
\* word at or past its length.
VerifyTotal == Verified => call.ret[1].pc = "done"

\* C17: a successful submit_solution changes no field of mine_state: it
\* only adds the Solution record of its miner and the current epoch; and it
\* does not change the outcome of a submission by another miner, so two
\* successful submissions of different miners in one epoch give the same
\* state in either order.
SubmitFrame ==
  [][(last'.op = "submit_solution" /\ solutions' # solutions)
       => /\ mine_state' = mine_state
          /\ minted' = minted
          /\ clock' = clock
          /\ \E s \in solutions' :
                /\ s \notin solutions
                /\ solutions' = solutions \cup {s}
                /\ s.epoch = mine_state.epoch_number
                /\ SolutionsOf(s.miner, s.epoch) = {}
                /\ \A m \in Keys \ {s.miner} : \A t \in LEDGER_TEXTS :
                   \A digest \in DIGESTS :
                      SubmitError(m, t, digest)' = SubmitError(m, t, digest)]_vars

\* both miners have a Solution of the current epoch
SubmitFrameWitness ==
  /\ last.op = "submit_solution" /\ last.err = "Ok"
  /\ \A m \in Keys : SolutionsOf(m, mine_state.epoch_number) # {}

\* C18: the epoch fields change only in an advance_epoch that runs with the
\* clock at or past epoch_end_time; it adds 1 to epoch_number and sets
\* epoch_start_time to the clock and epoch_end_time to the clock plus
\* EPOCH_DURATION; in every state epoch_end_time is epoch_start_time plus
\* EPOCH_DURATION.
EpochTiming ==
  /\ [](mine_state.epoch_end_time = mine_state.epoch_start_time + EPOCH_DURATION)
  /\ [][(\/ mine_state'.epoch_number # mine_state.epoch_number
         \/ mine_state'.epoch_start_time # mine_state.epoch_start_time
         \/ mine_state'.epoch_end_time # mine_state.epoch_end_time)
          => /\ last'.op = "advance_epoch" /\ last'.err = "Ok"
             /\ clock >= mine_state.epoch_end_time
             /\ mine_state'.epoch_number = mine_state.epoch_number + 1
             /\ mine_state'.epoch_start_time = clock
             /\ mine_state'.epoch_end_time = clock + EPOCH_DURATION]_vars

\* the first rotation has run one second after the end of epoch 0
EpochTimingWitness ==
  /\ last.op = "advance_epoch" /\ last.err = "Ok"
  /\ mine_state.epoch_number = 1
  /\ clock = EPOCH_DURATION + 1
  /\ mine_state.epoch_start_time = clock

(***************************************************************************)
(* verify_text at its limits: texts of 255, 256, 800 and 801 bytes, texts  *)
(* of more than SENT_HASH_CAP sentences, the empty text, texts at the      *)
(* limits of the consonant clusters.                                       *)
(***************************************************************************)

\* the sequence s without the n bytes from position `from` on
WithoutBytes(s, from, n) == SubSeq(s, 1, from - 1) \o SubSeq(s, from + n, Len(s))

\* SENT_E without "direction ", 131 bytes
SENT_E_131 == WithoutBytes(SENT_E, 67, 10)

\* SENT_E without "entirely ", 132 bytes
SENT_E_132 == WithoutBytes(SENT_E, 104, 9)

\* SENT_E without "the water flowed ", 124 bytes
SENT_E_124 == WithoutBytes(SENT_E, 81, 17)

\* SENT_E without "the river began ", 125 bytes
SENT_E_125 == WithoutBytes(SENT_E, 41, 16)

\* bcdfghjklmnpqrstvwxyz
CONSONANTS ==
  <<98, 99, 100, 102, 103, 104, 106, 107, 108, 109, 110, 112, 113, 114, 115,
    116, 118, 119, 120, 121, 122>>

\* aeiou
VOWELS == <<97, 101, 105, 111, 117>>

\* the k-th sentence of five one-letter words, "c v\nc v\nc" and the
\* terminator: no two of the first 525 have the same bytes
ShortSentence(k, term) ==
  <<CONSONANTS[(k % 21) + 1], 32, VOWELS[(k % 5) + 1], 10,
    CONSONANTS[((k + 7) % 21) + 1], 32, VOWELS[((k \div 5) % 5) + 1], 10,
    CONSONANTS[((k + 13) % 21) + 1], term>>

\*   the her in an the her in an a b e d i f o g u k a l.
SENT_LONG ==
  <<116,104,101,32,104,101,114,32,105,110,32,97,110,32,116,104,101,32,104,101,
    114,32,105,110,32,97,110,32,97,32,98,32,101,32,100,32,105,32,102,32,111,
    32,103,32,117,32,107,32,97,32,108,46>>

RECURSIVE ShortSentences(_, _)
\* the short sentences from..to, a line feed before each; the first of all
\* is a question
ShortSentences(from, to) ==
  IF from > to THEN <<>>
  ELSE <<10>> \o ShortSentence(from, IF from = 1 THEN 63 ELSE 46)
         \o ShortSentences(from + 1, to)

\* SENT_LONG, the short sentences 1..n, then the short sentence 2 again as
\* sentence n + 2 of the text
RepeatText(n) ==
  SENT_LONG \o ShortSentences(1, n) \o ShortSentences(2, 2)

\* " rhythm", " nymph", " crypt": a space and a word of 6, 5 and 5
\* consonants
RHYTHM == <<32, 114, 104, 121, 116, 104, 109>>

NYMPH == <<32, 110, 121, 109, 112, 104>>

CRYPT == <<32, 99, 114, 121, 112, 116>>

\* SENT_D with "rhythm" for "air":
\*   The morning rhythm felt crisp and fresh.
SENT_D_RHYTHM ==
  SubSeq(SENT_D, 1, 12) \o Tail(RHYTHM) \o SubSeq(SENT_D, 16, Len(SENT_D))

\* a text of 58 consonant clusters that hold 145 letters, 2.5 on average:
\*   Blue where glyph glue nymph thin lynx crypt glue eerie nymph queue
\*   myth clan crypt where nymph free true thin free. Shoe true glue thin
\*   audio three myth free? Shrew crypt spree there myth crypt! Sky myth
\*   where than glyph where! Myth eerie audio ooze nymph the!
TEXT_CLUSTERS ==
  <<
   66,108,117,101,32,119,104,101,114,101,32,103,108,121,112,104,32,103,108,117,101,32,110,121,
   109,112,104,32,116,104,105,110,32,108,121,110,120,32,99,114,121,112,116,32,103,108,117,101,
   32,101,101,114,105,101,32,110,121,109,112,104,32,113,117,101,117,101,32,109,121,116,104,32,
   99,108,97,110,32,99,114,121,112,116,32,119,104,101,114,101,32,110,121,109,112,104,32,102,
   114,101,101,32,116,114,117,101,32,116,104,105,110,32,102,114,101,101,46,32,83,104,111,101,
   32,116,114,117,101,32,103,108,117,101,32,116,104,105,110,32,97,117,100,105,111,32,116,104,
   114,101,101,32,109,121,116,104,32,102,114,101,101,63,32,83,104,114,101,119,32,99,114,121,
   112,116,32,115,112,114,101,101,32,116,104,101,114,101,32,109,121,116,104,32,99,114,121,112,
   116,33,32,83,107,121,32,109,121,116,104,32,119,104,101,114,101,32,116,104,97,110,32,103,
   108,121,112,104,32,119,104,101,114,101,33,32,77,121,116,104,32,101,101,114,105,101,32,97,
   117,100,105,111,32,111,111,122,101,32,110,121,109,112,104,32,116,104,101,33
  >>

\* TEXT_CLUSTERS with "fee" for its first "free": 144 letters in 58
\* clusters
TEXT_CLUSTERS_FEE == WithoutBytes(TEXT_CLUSTERS, 97, 1)

\* the texts at the limits, by number
EDGE_TEXTS ==
  <<JoinSentences(<<SENT_D, SENT_F, SENT_E_131>>),
    JoinSentences(<<SENT_D, SENT_F, SENT_E_132>>),
    JoinSentences(<<SENT_A, SENT_B, SENT_C, SENT_D, SENT_E, SENT_F,
                    SENT_E_124>>),
    JoinSentences(<<SENT_A, SENT_B, SENT_C, SENT_D, SENT_E, SENT_F,
                    SENT_E_125>>),
    RepeatText(SENT_HASH_CAP - 2),
    RepeatText(SENT_HASH_CAP - 1),
    RepeatText(SENT_HASH_CAP),
    SENT_LONG \o ShortSentences(1, SENT_HASH_CAP),
    <<>>,
    TEXTS[1] \o RHYTHM,
    TEXTS[1] \o NYMPH,
    JoinSentences(<<SENT_D_RHYTHM, SENT_E, SENT_F>>),
    TEXT_CLUSTERS,
    TEXT_CLUSTERS_FEE,
    TEXT_CLUSTERS_FEE \o CRYPT>>

MaxEdgeWords == 1

EdgeWordLists == UNION {[1..n -> VOCAB] : n \in 0..MaxEdgeWords}

InitEdge ==
  /\ Idle
  /\ \E t \in 1..Len(EDGE_TEXTS) : \E words \in EdgeWordLists :
        call = CallOf("verify_text", <<t, words>>)

ApplyVerifyEdge ==
  /\ call.fn = "verify_text"
  /\ Return(verify_text(EDGE_TEXTS[call.args[1]], call.args[2]))

SpecEdge == InitEdge /\ [][ApplyVerifyEdge]_vars

\* C19: verify_text returns false, without a fault, on a text of fewer than
\* 256 or more than 800 bytes, whatever the text and the required words,
\* the empty list included.
LengthEnforced ==
  (Verified /\ (Len(EDGE_TEXTS[call.args[1]]) < 256
                  \/ Len(EDGE_TEXTS[call.args[1]]) > 800))
    => call.ret[1].pc = "done" /\ ~call.ret[1].result

\* the text of 255 bytes is turned down under the empty list, the one of
\* 256 bytes is accepted
LengthEnforcedWitness ==
  /\ Verified
  /\ call.args[2] = <<>>
  /\ Len(EDGE_TEXTS[call.args[1]]) = 255
  /\ ~call.ret[1].result
  /\ Len(EDGE_TEXTS[call.args[1] + 1]) = 256
  /\ Accepts(verify_text(EDGE_TEXTS[call.args[1] + 1], <<>>))

\* Sentences tabulated once, by number of the text at the limits
EDGE_SENTENCES ==
  SubSeq([t \in 1..Len(EDGE_TEXTS) |-> Sentences(EDGE_TEXTS[t])],
         1, Len(EDGE_TEXTS))

\* the completed sentences past the 50th that have the bytes of an earlier
\* completed sentence
LateRepeats(t) ==
  {y \in EDGE_SENTENCES[t] :
     /\ y.rank > 50
     /\ \E x \in EDGE_SENTENCES[t] :
          /\ x.end < y.end
          /\ SentenceBytes(EDGE_TEXTS[t], x) = SentenceBytes(EDGE_TEXTS[t], y)}

\* C20: the table never holds more than 50 fingerprints, and after a scan
\* to the end of the text it holds one for each of the first 50 completed
\* sentences only; when the last sentence of a text is the 51st or a later
\* one and repeats an earlier sentence, and the text before it is accepted,
\* the whole text is accepted too.
DedupCapped ==
  Verified =>
    LET t == call.args[1]
        text == EDGE_TEXTS[t]
        r == call.ret[1]
    IN  /\ r.hash_count <= 50
        /\ Len(r.sent_hashes) = r.hash_count
        /\ (r.pc = "done" /\ r.i = Len(text) /\ Len(text) > 0)
             => r.hash_count = Min(50, Cardinality(EDGE_SENTENCES[t]))
        /\ \A y \in LateRepeats(t) :
             (/\ y.end = Len(text)
              /\ Accepts(verify_text(SubSeq(text, 1, y.start - 1),
                                     call.args[2])))
               => Accepts(r)

\* the text whose 51st and last sentence repeats its third one is accepted
\* with 50 fingerprints taken, and the text whose 50th sentence does so is
\* not
DedupCappedWitness ==
  /\ Verified
  /\ call.args[2] = <<>>
  /\ LateRepeats(call.args[1]) # {}
  /\ Cardinality(EDGE_SENTENCES[call.args[1]]) = 51
  /\ Accepts(call.ret[1])
  /\ call.ret[1].sent_count = 51
  /\ call.ret[1].hash_count = 50
  /\ Cardinality(EDGE_SENTENCES[call.args[1] - 1]) = 50
  /\ ~Accepts(verify_text(EDGE_TEXTS[call.args[1] - 1], <<>>))

(***************************************************************************)
(* The difficulty adjustment of advance_epoch applied to a difficulty and  *)
(* a solution count: every count up to MaxCount, and larger ones around    *)
(* the powers of two of the ratio.                                         *)
(***************************************************************************)

MaxCount == 130

ADJUST_COUNTS ==
  (0..MaxCount) \cup {150, 199, 200, 201, 399, 400, 401, 800, 801, 1600,
                      1601, 3200, 2000000000}

ADJUST_DIFFICULTIES ==
  (MIN_DIFFICULTY..(MIN_DIFFICULTY + 6)) \cup {100}
    \cup ((MAX_DIFFICULTY - 6)..MAX_DIFFICULTY)

InitAdjust ==
  /\ Idle
  /\ \E d \in ADJUST_DIFFICULTIES : \E n \in ADJUST_COUNTS :
        call = CallOf("advance_epoch", <<d, n>>)

ApplyAdjustDifficulty ==
  /\ call.fn = "advance_epoch"
  /\ Return(AdjustDifficulty(call.args[1], call.args[2]))

SpecAdjust == InitAdjust /\ [][ApplyAdjustDifficulty]_vars

\* 0 for x <= 1, otherwise the smallest k with 2^k >= x
SmallestPower(x) ==
  IF x <= 1 THEN 0
  ELSE CHOOSE k \in 1..30 : 2 ^ k >= x /\ 2 ^ (k - 1) < x

\* v brought into 1..5
Clamp15(v) == IF v < 1 THEN 1 ELSE IF v > 5 THEN 5 ELSE v

\* C21: with the target of 50 the new difficulty is the old one for counts
\* of 40 to 60; old + clamp(log2_ceil(count div 50), 1, 5), at most 250,
\* for counts above 60; old - 5, at least 4, for the count 0;
\* old - clamp(log2_ceil(50 div count), 1, 5), at least 4, for counts of 1
\* to 39; log2_ceil(x) being 0 for x <= 1 and else the smallest k with
\* 2^k >= x.
DifficultyFormula ==
  (call.fn = "advance_epoch" /\ call.done) =>
    LET old == call.args[1]
        n == call.args[2]
        new == call.ret[1]
    IN  /\ (40 <= n /\ n <= 60) => new = old
        /\ n > 60 => new = Min(old + Clamp15(SmallestPower(n \div 50)), 250)
        /\ n = 0 => new = Max(old - 5, 4)
        /\ (1 <= n /\ n < 40)
             => new = Max(old - Clamp15(SmallestPower(50 \div n)), 4)
        /\ log2_ceil(n \div 50) = SmallestPower(n \div 50)
        /\ n <= 2 ^ 30 => log2_ceil(n) = SmallestPower(n)

\* 150 solutions, three times the target, raise the difficulty 100 by 2;
\* 16 solutions, a third of it, lower it by 2
DifficultyFormulaWitness ==
  /\ call.fn = "advance_epoch" /\ call.done
  /\ call.args = <<100, 150>>
  /\ call.ret[1] = 102
  /\ AdjustDifficulty(100, 16) = 98

\* C27: for a fixed difficulty between 4 and 250 the new difficulty does
\* not decrease when the solution count grows: for counts a <= b the
\* difficulty computed from a is at most the one computed from b.
DifficultyMonotone ==
  (call.fn = "advance_epoch" /\ call.done) =>
    \A b \in ADJUST_COUNTS :
       call.args[2] <= b
         => call.ret[1] <= AdjustDifficulty(call.args[1], b)

\* across the branch boundaries at the difficulty 100: 0 and 1 solutions
\* give 95 both, 39 give 99, 40 and 60 give 100, 61 give 101
DifficultyMonotoneWitness ==
  /\ call.fn = "advance_epoch" /\ call.done
  /\ call.args = <<100, 39>>
  /\ call.ret[1] = 99
  /\ AdjustDifficulty(100, 0) = 95
  /\ AdjustDifficulty(100, 1) = 95
  /\ AdjustDifficulty(100, 40) = 100
  /\ AdjustDifficulty(100, 60) = 100
  /\ AdjustDifficulty(100, 61) = 101

(***************************************************************************)
(* Properties of the ledger: claim, close_expired, failed instructions,    *)
(* the timing of the epochs.                                               *)
(***************************************************************************)

\* C22: for a Solution of epoch e in the current epoch c, claim succeeds
\* only if the epoch e is over (e < c, or e = c with the clock at or past
\* epoch_end_time) and c < e + CLAIM_EXPIRY_EPOCHS, and close_expired
\* succeeds only if c >= e + CLAIM_EXPIRY_EPOCHS; in no state can both
\* succeed on the same Solution; close_expired leaves total_mined and
\* total_supply.
ClaimOrClose ==
  /\ [](\A s \in solutions : \A k \in Keys :
          /\ ClaimError(s, k) = "Ok"
               => /\ \/ s.epoch < mine_state.epoch_number
                     \/ /\ s.epoch = mine_state.epoch_number
                        /\ clock >= mine_state.epoch_end_time
                  /\ mine_state.epoch_number < s.epoch + CLAIM_EXPIRY_EPOCHS
          /\ CloseError(s) = "Ok"
               => mine_state.epoch_number >= s.epoch + CLAIM_EXPIRY_EPOCHS
          /\ ~(ClaimError(s, k) = "Ok" /\ CloseError(s) = "Ok"))
  /\ [][/\ (last'.err = "Ok" /\ solutions' # solutions
              /\ last'.op \in {"claim", "close_expired"})
            => \E s \in solutions :
                 /\ solutions' = solutions \ {s}
                 /\ last'.op = "claim" => \E k \in Keys : ClaimError(s, k) = "Ok"
                 /\ last'.op = "close_expired" => CloseError(s) = "Ok"
         /\ last'.op = "close_expired"
            => /\ mine_state'.total_mined = mine_state.total_mined
               /\ mine_state'.total_supply = mine_state.total_supply
               /\ minted' = minted]_vars

\* a Solution of epoch 0 that can no longer be claimed has been closed in
\* the epoch CLAIM_EXPIRY_EPOCHS, nothing having been mined
ClaimOrCloseWitness ==
  /\ last.op = "close_expired" /\ last.err = "Ok"
  /\ mine_state.epoch_number = CLAIM_EXPIRY_EPOCHS
  /\ mine_state.total_mined = 0
  /\ \E s \in solutions :
        /\ s.epoch = 0
        /\ ClaimError(s, s.miner) = "ClaimExpired"
        /\ CloseError(s) = "Ok"

\* the epoch numbers that can be reached before the clock stops
Epochs == 0..MaxTime

\* no submission for the epoch e is accepted any more: the epoch is over
EpochClosed(e) ==
  \/ e < mine_state.epoch_number
  \/ e = mine_state.epoch_number /\ clock >= mine_state.epoch_end_time

\* the step is a claim that pays out for s, or closes s as expired
Removes(s) ==
  /\ s \in solutions
  /\ solutions' = solutions \ {s}
  /\ last'.op \in {"claim", "close_expired"} /\ last'.err = "Ok"

\* C23: the clock never going back, at most one claim pays out for a miner
\* m and an epoch e: a submit_solution succeeds for (m, e) only while no
\* Solution of (m, e) exists and the epoch e is not over; a claim pays out
\* only for an existing Solution and removes it, a close_expired removes
\* it, both only once the epoch e is over; and from a state in which the
\* epoch e is over and no Solution of (m, e) exists, none ever exists
\* again.
ClaimedOnce ==
  /\ [][/\ clock' >= clock
        /\ (last'.op = "submit_solution" /\ last'.err = "Ok"
              /\ solutions' # solutions)
             => \E s \in solutions' \ solutions :
                  /\ solutions' = solutions \cup {s}
                  /\ SolutionsOf(s.miner, s.epoch) = {}
                  /\ ~EpochClosed(s.epoch)
        /\ (minted' # minted \/ mine_state'.total_mined # mine_state.total_mined)
             => \E s \in solutions : Removes(s) /\ last'.op = "claim"
        /\ \A s \in solutions : Removes(s) => EpochClosed(s.epoch)]_vars
  /\ \A m \in Keys : \A e \in Epochs :
        []((EpochClosed(e) /\ SolutionsOf(m, e) = {})
             => [](SolutionsOf(m, e) = {}))

\* miner 1 has been paid for epoch 0 while epoch 0 is still the current one,
\* and the miner's next submission fails for the epoch has ended
ClaimedOnceWitness ==
  /\ last.op = "submit_solution" /\ last.err = "EpochEnded"
  /\ mine_state.epoch_number = 0
  /\ mine_state.total_mined = 1
  /\ minted[1] = calculate_reward(0)
  /\ SolutionsOf(1, 0) = {}

\* C24: an instruction that fails (submit_solution with EpochEnded,
\* MaxSupplyReached, InvalidText or InsufficientDifficulty, claim with
\* EpochNotEnded, ClaimExpired or InvalidRecipient, advance_epoch with
\* EpochNotEnded or Unauthorized, close_expired with NotExpired, or any
\* other failure) leaves mine_state, the Solution records and the minted
\* amounts as they were.
RejectedChangesNothing ==
  [][last'.err # "Ok"
       => /\ mine_state' = mine_state
          /\ solutions' = solutions
          /\ minted' = minted
          /\ clock' = clock \/ last' = last]_vars

\* a close_expired has failed on a Solution that is still there
RejectedChangesNothingWitness ==
  /\ last.op = "close_expired" /\ last.err = "NotExpired"
  /\ \E s \in solutions : CloseError(s) = "NotExpired"

\* C25: in no state can a submit_solution and an advance_epoch both pass
\* their test of the clock against epoch_end_time; from the moment the
\* clock is at or past epoch_end_time no Solution is recorded until an
\* advance_epoch has succeeded; every recorded Solution has an epoch of at
\* most epoch_number.
GuardsExclusive ==
  /\ [](/\ \A m \in Keys : \A t \in LEDGER_TEXTS : \A digest \in DIGESTS :
             \A crank \in Keys :
                ~(SubmitError(m, t, digest) = "Ok" /\ AdvanceError(crank) = "Ok")
        /\ \A s \in solutions : s.epoch <= mine_state.epoch_number)
  /\ [][clock >= mine_state.epoch_end_time
          => /\ solutions' \subseteq solutions
             /\ (mine_state'.epoch_end_time # mine_state.epoch_end_time
                   => last'.op = "advance_epoch" /\ last'.err = "Ok")]_vars

\* the epoch has ended with a Solution recorded: a submission has just
\* failed with EpochEnded and the crank can rotate
GuardsExclusiveWitness ==
  /\ last.op = "submit_solution" /\ last.err = "EpochEnded"
  /\ clock >= mine_state.epoch_end_time
  /\ AdvanceError(mine_state.crank_authority) = "Ok"
  /\ \E s \in solutions : s.epoch = mine_state.epoch_number

\* C26: after a successful advance_epoch at the time t every advance_epoch
\* at a time before t + EPOCH_DURATION fails, with EpochNotEnded when the
\* crank authority signs it; so two successful rotations are at least
\* EPOCH_DURATION apart and a second call at the same time rotates nothing.
RotationsSpaced ==
  /\ [](clock < mine_state.epoch_start_time + EPOCH_DURATION
          => /\ \A crank \in Keys : AdvanceError(crank) # "Ok"
             /\ AdvanceError(mine_state.crank_authority) = "EpochNotEnded")
  /\ [][mine_state'.epoch_number # mine_state.epoch_number
          => /\ mine_state'.epoch_number = mine_state.epoch_number + 1
             /\ clock >= mine_state.epoch_start_time + EPOCH_DURATION
             /\ mine_state'.epoch_start_time = clock
             /\ clock' = clock
             /\ AdvanceError(mine_state.crank_authority)' = "EpochNotEnded"]_vars

\* the second of two calls at the same time has failed: epoch 1 began at
\* this time and is still the current one
RotationsSpacedWitness ==
  /\ last.op = "advance_epoch" /\ last.err = "EpochNotEnded"
  /\ mine_state.epoch_number = 1
  /\ clock = mine_state.epoch_start_time

(***************************************************************************)
(* Runs of empty epochs.  The run begins in the state the ledger is in     *)
(* after |d - INITIAL_DIFFICULTY| rotations that moved the difficulty by 1 *)
(* each (61 solutions reported, or 39), made at the end of each epoch:     *)
(* the difficulty is d.  From there every advance_epoch reports no         *)
(* solution.  `call` keeps d and the epoch number at which the run begins. *)
(***************************************************************************)

MaxEmpty == 51

\* the ledger after e rotations by one step each, at the difficulty d
AfterSteps(d, e) ==
  /\ mine_state = [total_mined |-> 0,
                   difficulty |-> d,
                   challenge_seed |-> SEEDS[1],
                   epoch_number |-> e,
                   epoch_start_time |-> e * EPOCH_DURATION,
                   epoch_end_time |-> (e + 1) * EPOCH_DURATION,
                   solutions_in_epoch |-> IF d > INITIAL_DIFFICULTY THEN 61
                                          ELSE IF d < INITIAL_DIFFICULTY
                                          THEN 39 ELSE 0,
                   settled_in_epoch |-> 0,
                   total_supply |-> 0,
                   crank_authority |-> 1]
  /\ solutions = {}
  /\ minted = [k \in Keys |-> 0]
  /\ clock = e * EPOCH_DURATION
  /\ last = [op |-> IF e = 0 THEN "initialize" ELSE "advance_epoch",
             text |-> 0, err |-> "Ok"]

InitEmpty ==
  \E d \in MIN_DIFFICULTY..MAX_DIFFICULTY :
     LET e == IF d > INITIAL_DIFFICULTY THEN d - INITIAL_DIFFICULTY
              ELSE INITIAL_DIFFICULTY - d
     IN  /\ AfterSteps(d, e)
         /\ call = CallOf("advance_epoch", <<d, e>>)

RotateEmpty ==
  /\ mine_state.epoch_number < call.args[2] + MaxEmpty
  /\ AdvanceEpoch(1, 0, SEEDS[1])

NextEmpty == RotateEmpty \/ EpochEnds

SpecEmpty == InitEmpty /\ [][NextEmpty]_vars

\* C28: when every advance_epoch from some point on reports no solution,
\* the difficulty, d at that point, is 4 after ceil((d - 4) / 5) rotations
\* at most and at every later rotation, and is never below 4: after k
\* rotations it is d - 5k or 4, whichever is larger.
EmptyEpochsDrain ==
  LET d == call.args[1]
      k == mine_state.epoch_number - call.args[2]
  IN  /\ mine_state.difficulty >= 4
      /\ 5 * k >= d - 4 => mine_state.difficulty = 4
      /\ mine_state.difficulty = Max(d - 5 * k, 4)

\* from 249 the difficulty is 4 after 49 rotations, and still 4 after 51
EmptyEpochsDrainWitness ==
  /\ last.op = "advance_epoch" /\ last.err = "Ok"
  /\ call.args[1] = 249
  /\ mine_state.epoch_number - call.args[2] = 51
  /\ mine_state.difficulty = 4
  /\ 5 * 48 < 249 - 4

(***************************************************************************)
(* Long runs of mining: in each epoch the miners submit the first text     *)
(* with a digest of zeros, the epoch ends, the Solutions are claimed, and  *)
(* the crank, reporting the target count, rotates once no Solution is      *)
(* left; MaxMineEpochs rotations at most.                                  *)
(***************************************************************************)

MaxMineEpochs == 40

MineSubmit ==
  \E miner \in Keys : SubmitSolution(miner, 1, 0, [k \in 1..32 |-> 0])

MineClaim == \E s \in solutions : Claim(s, s.miner)

MineRotate ==
  /\ mine_state.epoch_number < MaxMineEpochs
  /\ solutions = {}
  /\ AdvanceEpoch(1, TARGET_SOLUTIONS, SEEDS[1])

NextMine == MineSubmit \/ EpochEnds \/ MineClaim \/ MineRotate

SpecMine == Init /\ [][NextMine]_vars

\* C29: MAX_SUPPLY being 2 * INITIAL_REWARD * HALVING_INTERVAL, total_supply
\* is below MAX_SUPPLY in every reachable state, whatever the number of
\* claims; so no submit_solution fails with MaxSupplyReached, and every
\* claim pays calculate_reward(total_mined) in full.
SupplyBelowCap ==
  /\ [](/\ MAX_SUPPLY = 2 * INITIAL_REWARD * HALVING_INTERVAL
        /\ mine_state.total_supply < MAX_SUPPLY
        /\ last.err # "MaxSupplyReached"
        /\ calculate_reward(mine_state.total_mined)
             <= MAX_SUPPLY - mine_state.total_supply)
  /\ [][(last'.op = "claim" /\ last'.err = "Ok" /\ solutions' # solutions)
          => /\ mine_state'.total_supply
                  = mine_state.total_supply
                      + calculate_reward(mine_state.total_mined)
             /\ \E k \in Keys :
                   minted' = [minted EXCEPT
                                ![k] = @ + calculate_reward(mine_state.total_mined)]]_vars

\* past the 64th halving the claims pay nothing more and the supply has
\* stopped one unit below the cap
SupplyBelowCapWitness ==
  /\ last.op = "claim" /\ last.err = "Ok"
  /\ mine_state.total_mined > 64 * HALVING_INTERVAL
  /\ calculate_reward(mine_state.total_mined - 1) = 0
  /\ mine_state.total_supply = MAX_SUPPLY - 1
  /\ minted[1] + minted[2] = mine_state.total_supply

\* an ASCII letter that is no vowel
IsConsonant(b) == is_alpha(b) /\ ~is_vowel_lower(to_lower(b))

\* the maximal runs of consonants of a text: the position of the first
\* byte and the length
ConsonantRuns(text) ==
  LET starts == {a \in 1..Len(text) :
                   /\ IsConsonant(text[a])
                   /\ a = 1 \/ ~IsConsonant(text[a - 1])}
      last_of(a) == CHOOSE b \in a..Len(text) :
                      /\ \A c \in a..b : IsConsonant(text[c])
                      /\ b = Len(text) \/ ~IsConsonant(text[b + 1])
  IN  {[start |-> a, len |-> last_of(a) - a + 1] : a \in starts}

\* ConsonantRuns tabulated once, by number of the text at the limits
EDGE_RUNS ==
  SubSeq([t \in 1..Len(EDGE_TEXTS) |-> ConsonantRuns(EDGE_TEXTS[t])],
         1, Len(EDGE_TEXTS))

RECURSIVE RunBytes(_)
\* the number of bytes in the runs of the set
RunBytes(runs) ==
  IF runs = {} THEN 0
  ELSE LET r == CHOOSE x \in runs : TRUE
       IN  r.len + RunBytes(runs \ {r})

\* C30: in a text that verify_text accepts every maximal run of consonants
\* (alphabetic bytes that are no vowels) has 5 bytes at most and the runs
\* have fewer than 2.5 bytes on average, a run that reaches the end of the
\* text counted like the others; after a scan to the end of the text
\* cons_max, cons_total and cons_count are the longest run, the bytes in
\* the runs and the number of runs.
ConsonantRunsBounded ==
  Verified =>
    LET t == call.args[1]
        r == call.ret[1]
        runs == EDGE_RUNS[t]
    IN  /\ Accepts(r)
             => /\ \A x \in runs : x.len <= 5
                /\ 2 * RunBytes(runs) < 5 * Cardinality(runs)
        /\ (r.pc = "done" /\ r.i = Len(EDGE_TEXTS[t]) /\ Len(EDGE_TEXTS[t]) > 0)
             => /\ r.cons_count = Cardinality(runs)
                /\ r.cons_total = RunBytes(runs)
                /\ \A x \in runs : x.len <= r.cons_max
                /\ runs # {} => \E x \in runs : x.len = r.cons_max

\* a text that ends in a run of 6 consonants is turned down, and the same
\* text ending in a run of 5 is accepted; a text that ends in a run of 5
\* which brings the average to 2.5 is turned down, and accepted without it
ConsonantRunsBoundedWitness ==
  /\ Verified
  /\ call.args[2] = <<>>
  /\ \E x \in EDGE_RUNS[call.args[1]] :
        x.len = 6 /\ x.start + x.len - 1 = Len(EDGE_TEXTS[call.args[1]])
  /\ ~call.ret[1].result
  /\ call.ret[1].cons_max = 6
  /\ Accepts(verify_text(TEXTS[1] \o NYMPH, <<>>))
  /\ ~Accepts(verify_text(TEXT_CLUSTERS_FEE \o CRYPT, <<>>))
  /\ Accepts(verify_text(TEXT_CLUSTERS_FEE, <<>>))
  /\ ~Accepts(verify_text(TEXT_CLUSTERS, <<>>))

(***************************************************************************)
(* simple_hash applied to byte strings: every string of at most MaxHashLen *)
(* bytes of HASH_BYTES, and the sentences of the input texts.              *)
(***************************************************************************)

MaxHashLen == 3

\* NUL, '.', 'a', 0xff
HASH_BYTES == {0, 46, 97, 255}

HASH_INPUTS ==
  UNION {[1..n -> HASH_BYTES] : n \in 0..MaxHashLen}
    \cup {SENT_A, SENT_B, SENT_C, SENT_D, SENT_E, SENT_F, SENT_G, SENT_H}

InitHash ==
  /\ Idle
  /\ \E data \in HASH_INPUTS : call = CallOf("simple_hash", <<data>>)

ApplySimpleHash ==
  /\ call.fn = "simple_hash"
  /\ Return(simple_hash(call.args[1], 1, Len(call.args[1])))

SpecHash == InitHash /\ [][ApplySimpleHash]_vars

\* bit i of a
BitOf(a, i) == (a \div (2 ^ i)) % 2

\* a xor b on bytes, bit by bit
Xor8(a, b) ==
  LET x(i) == ((BitOf(a, i) + BitOf(b, i)) % 2) * 2 ^ i
  IN  x(0) + x(1) + x(2) + x(3) + x(4) + x(5) + x(6) + x(7)

RECURSIVE TimesSmall(_, _, _, _)
\* the limbs k..8 of x * m for a small m, carry coming in
TimesSmall(x, m, k, carry) ==
  IF k > 8 THEN <<>>
  ELSE LET c == x[k] * m + carry
       IN  <<c % 256>> \o TimesSmall(x, m, k + 1, c \div 256)

RECURSIVE AddLimbs(_, _, _, _)
\* the limbs k..8 of x + y modulo 2^64, carry coming in
AddLimbs(x, y, k, carry) ==
  IF k > 8 THEN <<>>
  ELSE LET c == x[k] + y[k] + carry
       IN  <<c % 256>> \o AddLimbs(x, y, k + 1, c \div 256)

\* x * 0x100000001b3 modulo 2^64, as x * 2^40 + x * 0x1b3
TimesFnvPrime(x) ==
  AddLimbs(TimesSmall(x, 435, 1, 0), <<0, 0, 0, 0, 0, x[1], x[2], x[3]>>, 1, 0)

\* one step of 64-bit FNV-1a: xor the byte in, then multiply by the FNV
\* prime
Fnv1aStep(h, b) == TimesFnvPrime([h EXCEPT ![1] = Xor8(h[1], b)])

RECURSIVE Fnv1aRange(_, _, _, _)
\* 64-bit FNV-1a over the bytes lo..hi of data from the state h, the bytes
\* taken left to right (the first half, then the second: the evaluation
\* stays shallow; the test on h makes it strict in h)
Fnv1aRange(h, data, lo, hi) ==
  IF lo > hi \/ Len(h) # 8 THEN h
  ELSE IF lo = hi THEN Fnv1aStep(h, data[lo])
  ELSE Fnv1aRange(Fnv1aRange(h, data, lo, (lo + hi) \div 2), data,
                  ((lo + hi) \div 2) + 1, hi)

\* 64-bit FNV-1a of data from the seed
Fnv1a(seed, data) == Fnv1aRange(seed, data, 1, Len(data))

\* C31 as stated: the fingerprint is a pair of 64-bit FNV-1a running hashes
\* over the bytes, with two different multipliers and two different
\* non-zero seeds.
FingerprintTwoMultipliers ==
  (call.fn = "simple_hash" /\ call.done) =>
    /\ call.ret[1][1] = Fnv1aRange(FNV_SEED_1, call.args[1], 1, Len(call.args[1]))
    /\ FNV_MUL_1 # FNV_MUL_2
    /\ FNV_SEED_1 # FNV_SEED_2
    /\ FNV_SEED_1 # [k \in 1..8 |-> 0]
    /\ FNV_SEED_2 # [k \in 1..8 |-> 0]

\* C31, amended: the fingerprint is a pair of 64-bit FNV-1a running hashes
\* over the bytes, both with the multiplier 0x100000001b3, from the two
\* different non-zero seeds 0xcbf29ce484222325 and 0x6c62272e07bb0142.
FingerprintTwoSeeds ==
  (call.fn = "simple_hash" /\ call.done) =>
    /\ call.ret[1][1]
         = Fnv1a(<<37, 35, 34, 132, 228, 156, 242, 203>>, call.args[1])
    /\ call.ret[1][2]
         = Fnv1a(<<66, 1, 187, 7, 46, 39, 98, 108>>, call.args[1])
    /\ FNV_MUL_1 = FNV_MUL_2
    /\ FNV_SEED_1 # FNV_SEED_2
    /\ FNV_SEED_1 # [k \in 1..8 |-> 0]
    /\ FNV_SEED_2 # [k \in 1..8 |-> 0]

\* the string "a": its first hash is 0xaf63dc4c8601ec8c, the 64-bit FNV-1a
\* hash of "a", its second one 0xe5c9b63722c2ee79
FingerprintTwoSeedsWitness ==
  /\ call.fn = "simple_hash" /\ call.done
  /\ call.args[1] = <<97>>
  /\ call.ret[1][1] = <<140, 236, 1, 134, 76, 220, 99, 175>>
  /\ call.ret[1][2] = <<121, 238, 194, 34, 55, 182, 201, 229>>

====
